---- MODULE Spec2Model ----
(***************************************************************************)
(* Model of scripts/validate-dependencies.py: the SystemValidator, its     *)
(* checks, the summary (print_results), the report (generate_report) and   *)
(* main.  Text is a sequence of elements: every digit, dot and blank is an *)
(* element of its own; a fixed fragment without digits (a word, the        *)
(* literal  version "  of the Java pattern) is one element.                *)
(***************************************************************************)
EXTENDS Integers, Sequences, FiniteSets, TLC

VARIABLES
    pc,         \* position of main / run_all_checks
    host,       \* the probe responses of the machine the run executes on
    checks,     \* the dict built by run_all_checks: sequence of <<category, results>>
    results,    \* self.results
    success,    \* <<value returned by print_results>>, <<>> before it returns
    exitCode,   \* <<argument of sys.exit>>, <<>> while the process runs
    report,     \* validation-report.json: absent, opened (partial) or written (complete)
    raised,     \* the exception that ended the try block of main, with its place
    ran,        \* commands handed to run_command so far
    cv,         \* check_version applied to drawn inputs (specification CVSpec)
    setup       \* EnvironmentSetup.run_setup: its environment and its locals (SetupSpec)

vars == <<pc, host, checks, results, success, exitCode, report, raised, ran, cv, setup>>

----------------------------------------------------------------------------
(* Bounds *)

\* longest command output (stdout or stderr) drawn for check_version
MaxOutLen == 4
\* largest number of probes of one run that answer differently from a ready host
MaxDeviations == 1

----------------------------------------------------------------------------
(* Text *)

JavaPrefix == "version \""

DigitChars == {"0", "1", "2", "3", "4", "5", "6", "7", "8", "9"}

IsDigit(c) == c \in DigitChars

DigitVal(c) ==
    CASE c = "0" -> 0 [] c = "1" -> 1 [] c = "2" -> 2 [] c = "3" -> 3
      [] c = "4" -> 4 [] c = "5" -> 5 [] c = "6" -> 6 [] c = "7" -> 7
      [] c = "8" -> 8 [] c = "9" -> 9

\* code point of a character of a version string (digits and the dot)
Ord(c) == IF c = "." THEN 46 ELSE 48 + DigitVal(c)

SetMax(S) == CHOOSE m \in S : \A x \in S : x <= m

SetMin(S) == CHOOSE m \in S : \A x \in S : m <= x

\* str.strip(): leading and trailing blanks removed
Strip(s) ==
    LET keep == {i \in 1..Len(s) : s[i] /= " "}
    IN  IF keep = {} THEN <<>> ELSE SubSeq(s, SetMin(keep), SetMax(keep))

\* last index of the longest run of characters of class C that starts at i of s
\* (i - 1: the character at i is not in C)
RunEnd(s, i, C) ==
    LET ends == {j \in i..Len(s) : \A k \in i..j : s[k] \in C}
    IN  IF ends = {} THEN i - 1 ELSE SetMax(ends)

\* \d+ from i
DigitRunEnd(s, i) == RunEnd(s, i, DigitChars)

\* the default pattern with its dot and minor number optional: (\d+(?:\.\d+)?(?:\.\d+)?)
DefaultMatchEnd_DotOptional(s, i) ==
    LET e1 == DigitRunEnd(s, i)
        e2 == DigitRunEnd(s, e1 + 2)
        e3 == DigitRunEnd(s, e2 + 2)
    IN  IF e1 < i THEN 0
        ELSE IF e1 + 1 > Len(s) THEN e1
        ELSE IF s[e1 + 1] /= "." \/ e2 < e1 + 2 THEN e1
        ELSE IF e2 + 1 <= Len(s) /\ s[e2 + 1] = "." /\ e3 >= e2 + 2 THEN e3
        ELSE e2

\* (\d+\.\d+(?:\.\d+)?) matched at i: index of the last matched character, 0 if no match
DefaultMatchEnd(s, i) ==
    LET e1 == DigitRunEnd(s, i)
        e2 == DigitRunEnd(s, e1 + 2)
        e3 == DigitRunEnd(s, e2 + 2)
    IN  IF e1 < i \/ e1 + 1 > Len(s) THEN 0
        ELSE IF s[e1 + 1] /= "." \/ e2 < e1 + 2 THEN 0
        ELSE IF e2 + 1 <= Len(s) /\ s[e2 + 1] = "." /\ e3 >= e2 + 2 THEN e3
        ELSE e2

\* version "(\d+) matched at i: index of the last matched character, 0 if no match
JavaMatchEnd(s, i) ==
    LET e == DigitRunEnd(s, i + 1)
    IN  IF s[i] = JavaPrefix /\ e >= i + 1 THEN e ELSE 0

\* re.search(pattern, s).group(1); <<>> stands for "no match"
SearchGroup(pattern, s) ==
    LET hits == {i \in 1..Len(s) :
                    IF pattern = "java" THEN JavaMatchEnd(s, i) > 0
                                        ELSE DefaultMatchEnd(s, i) > 0}
        i0   == SetMin(hits)
    IN  IF hits = {} THEN <<>>
        ELSE IF pattern = "java" THEN SubSeq(s, i0 + 1, JavaMatchEnd(s, i0))
        ELSE SubSeq(s, i0, DefaultMatchEnd(s, i0))

----------------------------------------------------------------------------
(* Version comparison *)

RECURSIVE ToInt(_)
ToInt(ds) ==
    IF ds = <<>> THEN 0
    ELSE 10 * ToInt(SubSeq(ds, 1, Len(ds) - 1)) + DigitVal(ds[Len(ds)])

\* the release segment of packaging's version.parse: the dotted components as integers
RECURSIVE Release(_)
Release(v) ==
    LET dots == {i \in 1..Len(v) : v[i] = "."}
    IN  IF dots = {} THEN <<ToInt(v)>>
        ELSE <<ToInt(SubSeq(v, 1, SetMin(dots) - 1))>>
                \o Release(SubSeq(v, SetMin(dots) + 1, Len(v)))

\* packaging compares releases with the trailing zero components dropped
RECURSIVE DropTrailingZeros(_)
DropTrailingZeros(r) ==
    IF r /= <<>> /\ r[Len(r)] = 0 THEN DropTrailingZeros(SubSeq(r, 1, Len(r) - 1))
    ELSE r

\* Python's order of tuples and of strings: the first difference decides, a proper
\* prefix is smaller
SeqLess(a, b) ==
    \E i \in 1..(Len(b)) :
        /\ \A k \in 1..(i - 1) : k <= Len(a) /\ a[k] = b[k]
        /\ i - 1 <= Len(a)
        /\ (i > Len(a) \/ a[i] < b[i])

Codes(s) == [i \in 1..Len(s) |-> Ord(s[i])]

\* the string comparison with its operands exchanged
StrGE_Swapped(a, b) == ~SeqLess(Codes(b), Codes(a))

\* a >= b on Python strings
StrGE(a, b) == ~SeqLess(Codes(a), Codes(b))

\* the versions compared as strings, as the fallback compares them
PackagingGE_StringOrder(a, b) == StrGE(a, b)

\* version.parse(a) >= version.parse(b)
PackagingGE(a, b) ==
    ~SeqLess(DropTrailingZeros(Release(a)), DropTrailingZeros(Release(b)))

----------------------------------------------------------------------------
(* ValidationResult and run_command *)

Statuses == {"PASS", "FAIL", "WARNING", "INFO"}

\* an f-string: its fixed text with {} for each interpolated value, and the texts
\* interpolated
Msg(fmt, args) == [fmt |-> fmt, args |-> args]

\* ValidationResult(name, status, message): details and required keep their defaults
Result(name, status, message) ==
    [name |-> name, status |-> status, message |-> message,
     details |-> "None", required |-> TRUE]

\* ValidationResult(name, status, message, required=False)
OptionalResult(name, status, message) ==
    [name |-> name, status |-> status, message |-> message,
     details |-> "None", required |-> FALSE]

\* what subprocess.run does with a command: it exits, exceeds the timeout, or raises
ExitProc(code, out, err) == [kind |-> "exit", code |-> code, stdout |-> out, stderr |-> err]

TimeoutProc == [kind |-> "timeout", code |-> 0, stdout |-> <<>>, stderr |-> <<>>]

ErrorProc == [kind |-> "oserror", code |-> 0, stdout |-> <<>>, stderr |-> <<>>]

\* run_command without its TimeoutExpired handler: the generic handler answers
RunCommand_NoTimeoutHandler(proc) ==
    CASE proc.kind = "exit" ->
            [code |-> proc.code, stdout |-> Strip(proc.stdout), stderr |-> Strip(proc.stderr)]
      [] OTHER ->
            [code |-> 1, stdout |-> <<>>, stderr |-> <<"str(e)">>]

\* run_command giving a timed-out command an exit code of its own
RunCommand_TimeoutCode124(proc) ==
    CASE proc.kind = "exit" ->
            [code |-> proc.code, stdout |-> Strip(proc.stdout), stderr |-> Strip(proc.stderr)]
      [] proc.kind = "timeout" ->
            [code |-> 124, stdout |-> <<>>, stderr |-> <<"Command timed out">>]
      [] OTHER ->
            [code |-> 1, stdout |-> <<>>, stderr |-> <<"str(e)">>]

\* run_command returning exit code 0 for a command that timed out
RunCommand_TimeoutExitsZero(proc) ==
    CASE proc.kind = "exit" ->
            [code |-> proc.code, stdout |-> Strip(proc.stdout), stderr |-> Strip(proc.stderr)]
      [] proc.kind = "timeout" ->
            [code |-> 0, stdout |-> <<>>, stderr |-> <<"Command timed out">>]
      [] OTHER ->
            [code |-> 1, stdout |-> <<>>, stderr |-> <<"str(e)">>]

\* run_command: the triple (exit code, stdout, stderr)
RunCommand(proc) ==
    CASE proc.kind = "exit" ->
            [code |-> proc.code, stdout |-> Strip(proc.stdout), stderr |-> Strip(proc.stderr)]
      [] proc.kind = "timeout" ->
            [code |-> 1, stdout |-> <<>>, stderr |-> <<"Command timed out">>]
      [] OTHER ->
            [code |-> 1, stdout |-> <<>>, stderr |-> <<"str(e)">>]

\* version_output[:100]
Head100(s) == IF Len(s) <= 100 THEN s ELSE SubSeq(s, 1, 100)

\* check_version on a tool that shutil.which finds or not (found), whose version
\* command behaves as proc, with the packaging library importable or not.
\* executed and comparison record which statements the call reached.
CheckVersion(tool, min_version, version_pattern, found, proc, packaging) ==
    LET rc              == RunCommand(proc)
        version_output  == rc.stdout \o rc.stderr
        current_version == SearchGroup(version_pattern, version_output)
    IN  IF ~found THEN
            [result |-> Result(tool, "FAIL", Msg("{} not found in PATH", <<(<<tool>>)>>)),
             executed |-> FALSE, comparison |-> "none"]
        ELSE IF rc.code /= 0 THEN
            [result |-> Result(tool, "FAIL", Msg("Failed to get version: {}", <<rc.stderr>>)),
             executed |-> TRUE, comparison |-> "none"]
        ELSE IF current_version = <<>> THEN
            [result |-> Result(tool, "WARNING",
                               Msg("Could not parse version from: {}", <<Head100(version_output)>>)),
             executed |-> TRUE, comparison |-> "none"]
        ELSE IF packaging THEN
            [result |-> IF PackagingGE(current_version, min_version)
                        THEN Result(tool, "PASS",
                                    Msg("Version {} (>= {})", <<current_version, min_version>>))
                        ELSE Result(tool, "FAIL",
                                    Msg("Version {} < {}", <<current_version, min_version>>)),
             executed |-> TRUE, comparison |-> "packaging"]
        ELSE
            [result |-> IF StrGE(current_version, min_version)
                        THEN Result(tool, "PASS",
                                    Msg("Version {} (>= {})", <<current_version, min_version>>))
                        ELSE Result(tool, "WARNING",
                                    Msg("Version {}, expected >= {} (simple comparison)",
                                        <<current_version, min_version>>)),
             executed |-> TRUE, comparison |-> "string"]

----------------------------------------------------------------------------
(* The version checks the validator makes *)

VersionCommands ==
    {"git --version", "docker --version", "docker compose version",
     "docker-compose --version", "python3 --version", "python --version",
     "java -version", "node --version", "poetry --version",
     "mvn --version", "npm --version", "code --version"}

\* command.split()[0]
ToolOf(command) ==
    CASE command = "git --version" -> "git"
      [] command = "docker --version" -> "docker"
      [] command = "docker compose version" -> "docker"
      [] command = "docker-compose --version" -> "docker-compose"
      [] command = "python3 --version" -> "python3"
      [] command = "python --version" -> "python"
      [] command = "java -version" -> "java"
      [] command = "node --version" -> "node"
      [] command = "poetry --version" -> "poetry"
      [] command = "mvn --version" -> "mvn"
      [] command = "npm --version" -> "npm"
      [] command = "code --version" -> "code"
      [] command = "docker info" -> "docker"

\* the min_version argument of each check_version call
MinVersionOf(command) ==
    CASE command = "git --version" -> <<"2", ".", "4", "0">>
      [] command = "docker --version" -> <<"2", "4", ".", "0">>
      [] command = "docker compose version" -> <<"2", ".", "2", "0">>
      [] command = "docker-compose --version" -> <<"2", ".", "2", "0">>
      [] command = "python3 --version" -> <<"3", ".", "1", "2">>
      [] command = "python --version" -> <<"3", ".", "1", "2">>
      [] command = "java -version" -> <<"2", "1">>
      [] command = "node --version" -> <<"1", "8", ".", "0">>
      [] command = "poetry --version" -> <<"1", ".", "7">>
      [] command = "mvn --version" -> <<"3", ".", "9">>
      [] command = "npm --version" -> <<"9", ".", "0">>
      [] command = "code --version" -> <<"1", ".", "8", "0">>

\* the version_pattern argument: only the Java check passes one
PatternOf(command) == IF command = "java -version" THEN "java" ELSE "default"

\* what the command prints on a host whose tool meets the minimum
CurrentText(command) ==
    CASE command = "git --version" -> <<"git version ", "2", ".", "4", "3", ".", "0">>
      [] command = "docker --version" -> <<"Docker version ", "2", "4", ".", "0", ".", "6", ", build">>
      [] command = "docker compose version" -> <<"Docker Compose version v", "2", ".", "2", "4", ".", "5">>
      [] command = "docker-compose --version" -> <<"docker-compose version ", "2", ".", "2", "4", ".", "5", ", build">>
      [] command = "python3 --version" -> <<"Python ", "3", ".", "1", "2", ".", "1">>
      [] command = "python --version" -> <<"Python ", "3", ".", "1", "2", ".", "1">>
      [] command = "java -version" -> <<"openjdk ", "version \"", "2", "1", ".", "0", ".", "1", "\" LTS">>
      [] command = "node --version" -> <<"v", "2", "0", ".", "1", "1", ".", "0">>
      [] command = "poetry --version" -> <<"Poetry (version ", "1", ".", "7", ".", "1", ")">>
      [] command = "mvn --version" -> <<"Apache Maven ", "3", ".", "9", ".", "6">>
      [] command = "npm --version" -> <<"1", "0", ".", "2", ".", "4">>
      [] command = "code --version" -> <<"1", ".", "8", "5", ".", "1", " x64">>

\* what the command prints on a host whose tool is older than the minimum
OldText(command) ==
    CASE command = "git --version" -> <<"git version ", "2", ".", "9", ".", "5">>
      [] command = "docker --version" -> <<"Docker version ", "2", "0", ".", "1", "0", ".", "7", ", build">>
      [] command = "docker compose version" -> <<"Docker Compose version v", "2", ".", "3", ".", "3">>
      [] command = "docker-compose --version" -> <<"docker-compose version ", "1", ".", "2", "9", ".", "2", ", build">>
      [] command = "python3 --version" -> <<"Python ", "3", ".", "9", ".", "7">>
      [] command = "python --version" -> <<"Python ", "2", ".", "7", ".", "1", "8">>
      [] command = "java -version" -> <<"openjdk ", "version \"", "1", "7", ".", "0", ".", "2", "\" LTS">>
      [] command = "node --version" -> <<"v", "8", ".", "1", "7", ".", "0">>
      [] command = "poetry --version" -> <<"Poetry (version ", "1", ".", "1", ".", "1", "3", ")">>
      [] command = "mvn --version" -> <<"Apache Maven ", "3", ".", "8", ".", "8">>
      [] command = "npm --version" -> <<"8", ".", "1", "9", ".", "2">>
      [] command = "code --version" -> <<"1", ".", "7", "9", ".", "2", " x64">>

----------------------------------------------------------------------------
(* Numbers *)

\* f"{num/den:.1f}": the tenths nearest to num/den, a tie going to the even one
Round1(num, den) ==
    LET n == 10 * num
        q == n \div den
        r == n % den
    IN  IF 2 * r < den THEN q
        ELSE IF 2 * r > den THEN q + 1
        ELSE IF q % 2 = 0 THEN q ELSE q + 1

DigitChar(d) ==
    CASE d = 0 -> "0" [] d = 1 -> "1" [] d = 2 -> "2" [] d = 3 -> "3" [] d = 4 -> "4"
      [] d = 5 -> "5" [] d = 6 -> "6" [] d = 7 -> "7" [] d = 8 -> "8" [] d = 9 -> "9"

\* the decimal digits of n
RECURSIVE Decimal(_)
Decimal(n) == IF n < 10 THEN <<DigitChar(n)>> ELSE Decimal(n \div 10) \o <<DigitChar(n % 10)>>

\* the printed number, as text: 40.0 for 160/4
Fixed1(num, den) ==
    Decimal(Round1(num, den) \div 10) \o <<".", DigitChar(Round1(num, den) % 10)>>

RECURSIVE Pow10(_)
Pow10(k) == IF k = 0 THEN 1 ELSE 10 * Pow10(k - 1)

\* host memory and free disk are drawn in units of 2^28 bytes: 4 units are 1024**3 bytes
UnitsPerGB == 4

MemoryRecommendedGB == 16

MemoryMinimumGB == 8

DiskRecommendedGB == 100

DiskMinimumGB == 50

DockerMemoryGB == 8

MiBPerGB == 1024

----------------------------------------------------------------------------
(* The checks, applied to the probe responses h of one host *)

\* str.lower() of platform.system() and platform.machine()
Lower(name) ==
    CASE name = "Linux" -> "linux"
      [] name = "FreeBSD" -> "freebsd"
      [] OTHER -> name

\* subprocess.run(command, shell=True): the shell answers 127 for a tool that is not installed
ShellProc(h, command) ==
    IF h.which[ToolOf(command)] THEN h.proc[command]
    ELSE ExitProc(127, <<>>, <<"command not found">>)

\* check_version without the path lookup: the version command is always handed to the shell
CheckVersionOn_NoLookup(h, command) ==
    CheckVersion(ToolOf(command), MinVersionOf(command), PatternOf(command),
                 TRUE, ShellProc(h, command), h.packaging)

\* self.check_version(command, min_version, version_pattern) on host h
CheckVersionOn(h, command) ==
    CheckVersion(ToolOf(command), MinVersionOf(command), PatternOf(command),
                 h.which[ToolOf(command)], ShellProc(h, command), h.packaging)

\* the commands a list of check_version calls handed to run_command
Executed(h, commands) == {c \in commands : CheckVersionOn(h, c).executed}

OperatingSystemResult(h) ==
    IF Lower(h.os) \in {"windows", "darwin", "linux"}
    THEN Result("Operating System", "PASS", Msg("{} {}", <<(<<h.os>>), (<<h.release>>)>>))
    ELSE Result("Operating System", "WARNING", Msg("Unsupported OS: {}", <<(<<h.os>>)>>))

ArchitectureResult(h) ==
    IF Lower(h.machine) \in {"x86_64", "amd64", "arm64", "aarch64"}
    THEN Result("Architecture", "PASS", Msg("{}", <<(<<Lower(h.machine)>>)>>))
    ELSE Result("Architecture", "WARNING", Msg("Untested architecture: {}", <<(<<Lower(h.machine)>>)>>))

\* the memory block reporting a missing psutil as an INFO that stays required
SystemMemoryResult_InfoRequired(h) ==
    IF h.memory.kind = "ImportError"
    THEN Result("System Memory", "INFO", Msg("Could not check (psutil not available)", <<>>))
    ELSE IF h.memory.units >= MemoryRecommendedGB * UnitsPerGB
    THEN Result("System Memory", "PASS",
                Msg("{:.1f} GB (>= 16 GB)", <<Fixed1(h.memory.units, UnitsPerGB)>>))
    ELSE IF h.memory.units >= MemoryMinimumGB * UnitsPerGB
    THEN Result("System Memory", "WARNING",
                Msg("{:.1f} GB (minimum 16 GB recommended)", <<Fixed1(h.memory.units, UnitsPerGB)>>))
    ELSE Result("System Memory", "FAIL",
                Msg("{:.1f} GB (< 8 GB minimum)", <<Fixed1(h.memory.units, UnitsPerGB)>>))

\* the memory block: psutil missing gives an optional INFO; any other exception of
\* the query is not caught here (see CheckSystemRequirements)
SystemMemoryResult(h) ==
    IF h.memory.kind = "ImportError"
    THEN OptionalResult("System Memory", "INFO", Msg("Could not check (psutil not available)", <<>>))
    ELSE IF h.memory.units >= MemoryRecommendedGB * UnitsPerGB
    THEN Result("System Memory", "PASS",
                Msg("{:.1f} GB (>= 16 GB)", <<Fixed1(h.memory.units, UnitsPerGB)>>))
    ELSE IF h.memory.units >= MemoryMinimumGB * UnitsPerGB
    THEN Result("System Memory", "WARNING",
                Msg("{:.1f} GB (minimum 16 GB recommended)", <<Fixed1(h.memory.units, UnitsPerGB)>>))
    ELSE Result("System Memory", "FAIL",
                Msg("{:.1f} GB (< 8 GB minimum)", <<Fixed1(h.memory.units, UnitsPerGB)>>))

\* the disk block reporting an exception of the query as an optional INFO
DiskSpaceResult_RaisedIsInfo(h) ==
    IF h.disk.kind /= "ok"
    THEN OptionalResult("Disk Space", "INFO", Msg("Could not check disk space: {}", <<(<<"e">>)>>))
    ELSE IF h.disk.units >= DiskRecommendedGB * UnitsPerGB
    THEN Result("Disk Space", "PASS",
                Msg("{:.1f} GB free (>= 100 GB)", <<Fixed1(h.disk.units, UnitsPerGB)>>))
    ELSE IF h.disk.units >= DiskMinimumGB * UnitsPerGB
    THEN Result("Disk Space", "WARNING",
                Msg("{:.1f} GB free (minimum 100 GB recommended)", <<Fixed1(h.disk.units, UnitsPerGB)>>))
    ELSE Result("Disk Space", "FAIL",
                Msg("{:.1f} GB free (< 50 GB minimum)", <<Fixed1(h.disk.units, UnitsPerGB)>>))

\* the disk block with > in place of >=
DiskSpaceResult_Strict(h) ==
    IF h.disk.kind /= "ok"
    THEN OptionalResult("Disk Space", "WARNING", Msg("Could not check disk space: {}", <<(<<"e">>)>>))
    ELSE IF h.disk.units > DiskRecommendedGB * UnitsPerGB
    THEN Result("Disk Space", "PASS",
                Msg("{:.1f} GB free (>= 100 GB)", <<Fixed1(h.disk.units, UnitsPerGB)>>))
    ELSE IF h.disk.units > DiskMinimumGB * UnitsPerGB
    THEN Result("Disk Space", "WARNING",
                Msg("{:.1f} GB free (minimum 100 GB recommended)", <<Fixed1(h.disk.units, UnitsPerGB)>>))
    ELSE Result("Disk Space", "FAIL",
                Msg("{:.1f} GB free (< 50 GB minimum)", <<Fixed1(h.disk.units, UnitsPerGB)>>))

DiskSpaceResult(h) ==
    IF h.disk.kind /= "ok"
    THEN OptionalResult("Disk Space", "WARNING", Msg("Could not check disk space: {}", <<(<<"e">>)>>))
    ELSE IF h.disk.units >= DiskRecommendedGB * UnitsPerGB
    THEN Result("Disk Space", "PASS",
                Msg("{:.1f} GB free (>= 100 GB)", <<Fixed1(h.disk.units, UnitsPerGB)>>))
    ELSE IF h.disk.units >= DiskMinimumGB * UnitsPerGB
    THEN Result("Disk Space", "WARNING",
                Msg("{:.1f} GB free (minimum 100 GB recommended)", <<Fixed1(h.disk.units, UnitsPerGB)>>))
    ELSE Result("Disk Space", "FAIL",
                Msg("{:.1f} GB free (< 50 GB minimum)", <<Fixed1(h.disk.units, UnitsPerGB)>>))

\* check_system_requirements: the list it returns, or the exception that leaves it
CheckSystemRequirements(h) ==
    IF h.memory.kind = "Exception"
    THEN [raises |-> TRUE, results |-> <<>>]
    ELSE [raises |-> FALSE,
          results |-> <<OperatingSystemResult(h), ArchitectureResult(h),
                        SystemMemoryResult(h), DiskSpaceResult(h)>>]

\* the Docker Compose check trying the legacy command whenever the first result is not PASS
DockerComposeResult_LegacyUnlessPass(h) ==
    IF CheckVersionOn(h, "docker compose version").result.status /= "PASS"
    THEN CheckVersionOn(h, "docker-compose --version").result
    ELSE CheckVersionOn(h, "docker compose version").result

\* the Docker Compose check: the legacy command is tried when the first result is FAIL
DockerComposeResult(h) ==
    IF CheckVersionOn(h, "docker compose version").result.status = "FAIL"
    THEN CheckVersionOn(h, "docker-compose --version").result
    ELSE CheckVersionOn(h, "docker compose version").result

\* check_core_tools appending the first Docker Compose result before it tries the legacy command
CheckCoreTools_AppendsBoth(h) ==
    <<CheckVersionOn(h, "git --version").result,
      CheckVersionOn(h, "docker --version").result,
      CheckVersionOn(h, "docker compose version").result>>
        \o IF CheckVersionOn(h, "docker compose version").result.status = "FAIL"
           THEN <<CheckVersionOn(h, "docker-compose --version").result>> ELSE <<>>

CheckCoreTools(h) ==
    <<CheckVersionOn(h, "git --version").result,
      CheckVersionOn(h, "docker --version").result,
      DockerComposeResult(h)>>

CoreToolsExecuted(h) ==
    Executed(h, {"git --version", "docker --version", "docker compose version"})
        \cup IF CheckVersionOn(h, "docker compose version").result.status = "FAIL"
             THEN Executed(h, {"docker-compose --version"}) ELSE {}

\* check_programming_languages appending the result of the python alias whatever its status
PythonAliasResults_Always(h) == <<CheckVersionOn(h, "python --version").result>>

\* the result added for the python alias: only when its check passes
PythonAliasResults(h) ==
    IF CheckVersionOn(h, "python --version").result.status = "PASS"
    THEN <<OptionalResult("python (alias)", "PASS",
                          CheckVersionOn(h, "python --version").result.message)>>
    ELSE <<>>

CheckProgrammingLanguages(h) ==
    <<CheckVersionOn(h, "python3 --version").result>>
        \o PythonAliasResults(h)
        \o <<CheckVersionOn(h, "java -version").result,
             CheckVersionOn(h, "node --version").result>>

CheckPackageManagers(h) ==
    <<CheckVersionOn(h, "poetry --version").result,
      CheckVersionOn(h, "mvn --version").result,
      CheckVersionOn(h, "npm --version").result>>

MemoryLabel == "Total Memory:"

NumberChars == DigitChars \cup {"."}

LetterChars == {"G", "M", "K", "i", "B"}

\* Total Memory:\s*([0-9.]+)\s*([A-Za-z]+) matched at i: the two groups, <<>> if no match
MemoryMatchAt(s, i) ==
    LET n1 == RunEnd(s, i + 1, {" "}) + 1
        ne == RunEnd(s, n1, NumberChars)
        u1 == RunEnd(s, ne + 1, {" "}) + 1
        ue == RunEnd(s, u1, LetterChars)
    IN  IF s[i] = MemoryLabel /\ ne >= n1 /\ ue >= u1
        THEN <<SubSeq(s, n1, ne), SubSeq(s, u1, ue)>>
        ELSE <<>>

\* re.search of that pattern: the groups of the leftmost match
MemoryMatch(s) ==
    LET hits == {i \in 1..Len(s) : MemoryMatchAt(s, i) /= <<>>}
    IN  IF hits = {} THEN <<>> ELSE MemoryMatchAt(s, SetMin(hits))

\* float(text) raises ValueError: more than one dot, or no digit
FloatRaises(text) ==
    \/ Cardinality({i \in 1..Len(text) : text[i] = "."}) > 1
    \/ \A i \in 1..Len(text) : text[i] = "."

\* float(text) as a fraction num/den
FloatNum(text) == ToInt(SelectSeq(text, IsDigit))

FloatDen(text) ==
    LET dots == {i \in 1..Len(text) : text[i] = "."}
    IN  IF dots = {} THEN 1 ELSE Pow10(Len(text) - SetMin(dots))

\* memory_gb as a fraction: the value for a g unit, value / 1024 for an m unit, else 0
MemoryGBNum(value, unit) ==
    IF unit[1] \in {"G", "M"} THEN FloatNum(value) ELSE 0

MemoryGBDen(value, unit) ==
    IF unit[1] = "G" THEN FloatDen(value)
    ELSE IF unit[1] = "M" THEN FloatDen(value) * MiBPerGB
    ELSE 1

\* the block that parses docker info reporting an allocation below 8 GB as FAIL
DockerMemoryResults_BelowIsFail(stdout) ==
    LET m     == MemoryMatch(stdout)
        num   == MemoryGBNum(m[1], m[2])
        den   == MemoryGBDen(m[1], m[2])
    IN  IF ~(\E i \in 1..Len(stdout) : stdout[i] = MemoryLabel) THEN <<>>
        ELSE IF m = <<>> THEN <<>>
        ELSE IF FloatRaises(m[1])
        THEN <<OptionalResult("Docker Memory", "INFO", Msg("Could not parse memory allocation", <<>>))>>
        ELSE IF num >= DockerMemoryGB * den
        THEN <<Result("Docker Memory", "PASS",
                      Msg("{:.1f} GB allocated (>= 8 GB)", <<Fixed1(num, den)>>))>>
        ELSE <<Result("Docker Memory", "FAIL",
                      Msg("{:.1f} GB allocated (< 8 GB recommended)", <<Fixed1(num, den)>>))>>

\* the results of the block that parses docker info
DockerMemoryResults(stdout) ==
    LET m     == MemoryMatch(stdout)
        num   == MemoryGBNum(m[1], m[2])
        den   == MemoryGBDen(m[1], m[2])
    IN  IF ~(\E i \in 1..Len(stdout) : stdout[i] = MemoryLabel) THEN <<>>
        ELSE IF m = <<>> THEN <<>>
        ELSE IF FloatRaises(m[1])
        THEN <<OptionalResult("Docker Memory", "INFO", Msg("Could not parse memory allocation", <<>>))>>
        ELSE IF num >= DockerMemoryGB * den
        THEN <<Result("Docker Memory", "PASS",
                      Msg("{:.1f} GB allocated (>= 8 GB)", <<Fixed1(num, den)>>))>>
        ELSE <<Result("Docker Memory", "WARNING",
                      Msg("{:.1f} GB allocated (< 8 GB recommended)", <<Fixed1(num, den)>>))>>

CheckDockerConfiguration(h) ==
    LET rc == RunCommand(ShellProc(h, "docker info"))
    IN  IF rc.code = 0
        THEN <<Result("Docker Daemon", "PASS", Msg("Running", <<>>))>>
                \o DockerMemoryResults(rc.stdout)
        ELSE <<Result("Docker Daemon", "FAIL", Msg("Not running: {}", <<rc.stderr>>))>>

required_ports == <<8000, 8080, 5432, 6379, 9092, 9200>>

PortName(port) ==
    CASE port = 8000 -> "Port 8000" [] port = 8080 -> "Port 8080" [] port = 5432 -> "Port 5432"
      [] port = 6379 -> "Port 6379" [] port = 9092 -> "Port 9092" [] port = 9200 -> "Port 9200"

\* the except branch of the loop body reporting a required FAIL
PortResult_RaisedIsFail(h, port) ==
    IF h.ports[port] = "listening"
    THEN OptionalResult(PortName(port), "WARNING", Msg("In use (may conflict)", <<>>))
    ELSE IF h.ports[port] = "refused"
    THEN OptionalResult(PortName(port), "PASS", Msg("Available", <<>>))
    ELSE Result(PortName(port), "FAIL", Msg("Could not check: {}", <<(<<"e">>)>>))

\* one port: connect_ex returns 0 (a listener), another value, or the probe raises
PortResult(h, port) ==
    IF h.ports[port] = "listening"
    THEN OptionalResult(PortName(port), "WARNING", Msg("In use (may conflict)", <<>>))
    ELSE IF h.ports[port] = "refused"
    THEN OptionalResult(PortName(port), "PASS", Msg("Available", <<>>))
    ELSE OptionalResult(PortName(port), "INFO", Msg("Could not check: {}", <<(<<"e">>)>>))

CheckNetworkPorts(h) == [i \in 1..Len(required_ports) |-> PortResult(h, required_ports[i])]

\* check_ide_tools clearing the message of the result as it clears required
NotRequired_ClearsMessage(result) ==
    [result EXCEPT !.required = FALSE, !.message = Msg("", <<>>)]

\* check_ide_tools turning the FAIL of the result into INFO as it clears required
NotRequired_FailIsInfo(result) ==
    [result EXCEPT !.required = FALSE, !.status = IF @ = "FAIL" THEN "INFO" ELSE @]

\* vscode_result.required = False
NotRequired(result) == [result EXCEPT !.required = FALSE]

CheckIdeTools(h) == <<NotRequired(CheckVersionOn(h, "code --version").result)>>

----------------------------------------------------------------------------
(* print_results and generate_report *)

\* result.status.value, the glyph print_results shows for a status
StatusValue(status) ==
    CASE status = "PASS" -> "check mark glyph"
      [] status = "FAIL" -> "cross mark glyph"
      [] status = "WARNING" -> "warning sign glyph"
      [] OTHER -> "information glyph"

\* the line printed for one result; result.details is never set, so no second line
ResultLine(r) ==
    [kind |-> "result", icon |-> StatusValue(r.status), name |-> r.name,
     marker |-> IF r.required THEN "" ELSE " (optional)", message |-> r.message]

\* the heading of a category and the lines of its results
CategoryLines(c) ==
    <<[kind |-> "category", icon |-> "clipboard glyph", name |-> c[1], marker |-> "",
       message |-> Msg("", <<>>)]>>
        \o [i \in 1..Len(c[2]) |-> ResultLine(c[2][i])]

\* the loop over checks.items(): what print_results prints above the summary
RECURSIVE PrintedLines(_)
PrintedLines(cs) == IF cs = <<>> THEN <<>> ELSE CategoryLines(Head(cs)) \o PrintedLines(Tail(cs))

IsRequired(r) == r.required

IsRequiredPass(r) == r.required /\ r.status = "PASS"

\* the failed filter without its test of r.required
IsRequiredFail_AnyFail(r) == r.status = "FAIL"

IsRequiredFail(r) == r.required /\ r.status = "FAIL"

IsRequiredWarning(r) == r.required /\ r.status = "WARNING"

\* total_checks counting every result
total_checks_All(rs) == Len(rs)

total_checks(rs) == Len(SelectSeq(rs, IsRequired))

passed_checks(rs) == Len(SelectSeq(rs, IsRequiredPass))

failed_checks(rs) == Len(SelectSeq(rs, IsRequiredFail))

warning_checks(rs) == Len(SelectSeq(rs, IsRequiredWarning))

\* the three summary lines: Passed p/t, Failed f/t, Warnings w/t
Summary(rs) ==
    [passed |-> passed_checks(rs), failed |-> failed_checks(rs),
     warnings |-> warning_checks(rs), total |-> total_checks(rs)]

\* print_results returning False on warnings as well
PrintResults_WarningsFail(rs) ==
    IF failed_checks(rs) > 0 THEN FALSE
    ELSE IF warning_checks(rs) > 0 THEN FALSE
    ELSE TRUE

\* the value print_results returns
PrintResults(rs) ==
    IF failed_checks(rs) > 0 THEN FALSE
    ELSE IF warning_checks(rs) > 0 THEN TRUE
    ELSE TRUE

\* sys.exit(success): True exits 1 and False exits 0
ExitCodeOf_ExitSuccess(ok) == IF ok THEN 1 ELSE 0

\* sys.exit(0 if success else 1)
ExitCodeOf(ok) == IF ok THEN 0 ELSE 1

\* the flattening loop extending self.results with the later categories first
RECURSIVE Flatten_Reversed(_)
Flatten_Reversed(cs) ==
    IF cs = <<>> THEN <<>> ELSE Flatten_Reversed(Tail(cs)) \o Head(cs)[2]

\* the flattening loop of run_all_checks
RECURSIVE Flatten(_)
Flatten(cs) == IF cs = <<>> THEN <<>> ELSE Head(cs)[2] \o Flatten(Tail(cs))

\* what date -Iseconds prints at two moments
Timestamps == {"2026-01-01T00:00:00+00:00", "2026-01-01T00:00:01+00:00"}

\* generate_report writing result.status.value, the glyph, instead of result.status.name
Report_StatusValue(h, rs, now) ==
    [timestamp |-> IF h.date = "iso" THEN now ELSE "",
     system    |-> [os |-> h.os, release |-> h.release, architecture |-> h.machine,
                    python_version |-> h.python],
     results   |-> [i \in 1..Len(rs) |->
                       [name |-> rs[i].name, status |-> StatusValue(rs[i].status),
                        message |-> rs[i].message, details |-> rs[i].details,
                        required |-> rs[i].required]]]

\* generate_report writing the clock reading into the details of every result
Report_ClockInDetails(h, rs, now) ==
    [timestamp |-> IF h.date = "iso" THEN now ELSE "",
     system    |-> [os |-> h.os, release |-> h.release, architecture |-> h.machine,
                    python_version |-> h.python],
     results   |-> [i \in 1..Len(rs) |->
                       [name |-> rs[i].name, status |-> rs[i].status,
                        message |-> rs[i].message, details |-> now,
                        required |-> rs[i].required]]]

\* the dict generate_report dumps when date prints now; a date that does not know
\* -Iseconds prints nothing on stdout
Report(h, rs, now) ==
    [timestamp |-> IF h.date = "iso" THEN now ELSE "",
     system    |-> [os |-> h.os, release |-> h.release, architecture |-> h.machine,
                    python_version |-> h.python],
     results   |-> [i \in 1..Len(rs) |->
                       [name |-> rs[i].name, status |-> rs[i].status,
                        message |-> rs[i].message, details |-> rs[i].details,
                        required |-> rs[i].required]]]

\* no report file has been opened
NoReport == [state |-> "absent", content |-> <<>>]

----------------------------------------------------------------------------
(* The hosts a run is checked on *)

Tools == {ToolOf(c) : c \in VersionCommands}

Commands == VersionCommands \cup {"docker info"}

\* java -version prints on stderr, the other commands on stdout
Prints(command, text) ==
    IF command = "java -version" THEN ExitProc(0, <<>>, text) ELSE ExitProc(0, text, <<>>)

DockerInfo(memory) == ExitProc(0, <<"Server:", " ", MemoryLabel, " ">> \o memory \o <<" ", "Name:">>, <<>>)

\* a host that meets every requirement
ReadyHost ==
    [which     |-> [t \in Tools |-> TRUE],
     proc      |-> [c \in Commands |->
                       IF c = "docker info" THEN DockerInfo(<<"1", "5", ".", "6", "G", "i", "B">>)
                       ELSE Prints(c, CurrentText(c))],
     os        |-> "Linux",
     release   |-> "6.1",
     machine   |-> "x86_64",
     python    |-> "3.12.1",
     memory    |-> [kind |-> "ok", units |-> 16 * UnitsPerGB],
     disk      |-> [kind |-> "ok", units |-> 100 * UnitsPerGB],
     ports     |-> [i \in {required_ports[k] : k \in 1..Len(required_ports)} |-> "refused"],
     console   |-> "utf-8",
     date      |-> "iso",
     file      |-> "writable",
     packaging |-> TRUE]

\* other answers of a version command: it fails, hangs, prints no version, prints an old one
OtherProcs(c) ==
    {ExitProc(1, <<>>, <<"error">>), TimeoutProc,
     Prints(c, <<"usage">>), Prints(c, OldText(c))}

\* other answers of docker info
OtherDockerInfo ==
    {ExitProc(1, <<>>, <<"Cannot connect to the Docker daemon">>),
     TimeoutProc,
     ExitProc(0, <<"Server:", " ", "Name:">>, <<>>),
     DockerInfo(<<"G", "i", "B">>),
     DockerInfo(<<"8", "G", "i", "B">>),
     DockerInfo(<<"7", ".", "6", " ", "G", "i", "B">>),
     DockerInfo(<<"7", "8", "3", "6", "M", "i", "B">>),
     DockerInfo(<<"5", "1", "2", "K", "i", "B">>),
     DockerInfo(<<"1", ".", "2", ".", "3", "G", "i", "B">>)}

\* other answers of the memory and disk queries, in units of 2^28 bytes
OtherMemory ==
    {[kind |-> "ok", units |-> u] : u \in {31, 32, 63}}
        \cup {[kind |-> "ImportError", units |-> 0], [kind |-> "Exception", units |-> 0]}

OtherDisk ==
    {[kind |-> "ok", units |-> u] : u \in {160, 199, 200, 399}}
        \cup {[kind |-> "Exception", units |-> 0]}

\* the answers that differ from those of the ready host: a probe and its answer
Deviations ==
    {<<"which", t, FALSE>> : t \in Tools}
        \cup UNION {{<<"proc", c, p>> : p \in OtherProcs(c)} : c \in VersionCommands}
        \cup {<<"proc", "docker info", p>> : p \in OtherDockerInfo}
        \cup {<<"proc", c, ErrorProc>> : c \in {"git --version", "code --version"}}
        \cup {<<"os", "", "FreeBSD">>, <<"machine", "", "riscv64">>}
        \cup {<<"memory", "", m>> : m \in OtherMemory}
        \cup {<<"disk", "", d>> : d \in OtherDisk}
        \cup {<<"port", required_ports[k], a>> : k \in 1..Len(required_ports),
                                                 a \in {"listening", "error"}}
        \cup {<<"console", "", "ascii">>, <<"date", "", "unsupported">>,
              <<"date", "", "missing">>, <<"date", "", "hangs">>,
              <<"file", "", "readonly">>}

\* host h with the answer of one probe replaced; <<"none">> replaces nothing
Deviate(h, d) ==
    CASE d[1] = "which"   -> [h EXCEPT !.which[d[2]] = d[3]]
      [] d[1] = "proc"    -> [h EXCEPT !.proc[d[2]] = d[3]]
      [] d[1] = "os"      -> [h EXCEPT !.os = d[3]]
      [] d[1] = "machine" -> [h EXCEPT !.machine = d[3]]
      [] d[1] = "memory"  -> [h EXCEPT !.memory = d[3]]
      [] d[1] = "disk"    -> [h EXCEPT !.disk = d[3]]
      [] d[1] = "port"    -> [h EXCEPT !.ports[d[2]] = d[3]]
      [] d[1] = "console" -> [h EXCEPT !.console = d[3]]
      [] d[1] = "date"    -> [h EXCEPT !.date = d[3]]
      [] d[1] = "file"    -> [h EXCEPT !.file = d[3]]
      [] OTHER            -> h

\* the ready host with the deviations ds[1], ..., ds[k] applied
RECURSIVE Deviated(_, _)
Deviated(ds, k) == IF k = 0 THEN ReadyHost ELSE Deviate(Deviated(ds, k - 1), ds[k])

----------------------------------------------------------------------------
(* setup-dev-environment.py: EnvironmentSetup.run_setup *)

\* setup_steps: the step functions in their listed order
setup_steps ==
    <<"create_directory_structure", "create_docker_compose_files",
      "create_environment_files", "create_makefile",
      "create_test_data_generators", "create_cleanup_scripts">>

\* total_steps = len(setup_steps)
total_steps == Len(setup_steps)

\* the for loop ending at the first step that returns False
AfterStep_BreakOnFailure(index, ok) == IF ok THEN index + 1 ELSE total_steps + 1

\* the for loop goes on to the next step, whatever the step returned
AfterStep(index, ok) == index + 1

\* if step_function(): success_count += 1
CountStep(success_count, ok) == IF ok THEN success_count + 1 ELSE success_count

\* the value run_setup returns: success_count == total_steps
RunSetupReturns(success_count) == success_count = total_steps

\* run_setup before its first statement, in an environment where the file operations
\* of step i succeed (env[i]) or raise, which the step catches and answers with False
SetupIn(env) ==
    [env |-> env, index |-> 1, executed |-> <<>>, returned |-> <<>>,
     success_count |-> 0, ret |-> <<>>]

\* no setup runs
SetupIdle == SetupIn([i \in 1..total_steps |-> TRUE])

----------------------------------------------------------------------------
(* check_version on drawn inputs *)

\* characters of a drawn command output
OutChars == {"0", "2", "9", ".", " ", JavaPrefix}

\* every text of at most n characters
Texts(n) == UNION {[1..k -> OutChars] : k \in 0..n}

\* the minimum versions drawn: 2.9, 2.20, 2 and 2.0
MinVersions == {<<"2", ".", "9">>, <<"2", ".", "2", "0">>, <<"2">>, <<"2", ".", "0">>}

\* the version command prints its text on stdout or on stderr, fails, hangs or cannot start
DrawnProcs ==
    {ExitProc(0, t, <<>>) : t \in Texts(MaxOutLen)}
        \cup {ExitProc(0, <<>>, t) : t \in Texts(MaxOutLen)}
        \cup {ExitProc(1, <<>>, <<"error">>), ExitProc(1, <<>>, <<"Command timed out">>),
              TimeoutProc, ErrorProc}

NoCall == [result |-> Result("", "INFO", Msg("", <<>>)), executed |-> FALSE, comparison |-> "none"]

CVIdle ==
    [phase |-> "idle", min_version |-> <<>>, version_pattern |-> "default", found |-> FALSE,
     proc |-> TimeoutProc, packaging |-> TRUE, ret |-> NoCall]

CVInit ==
    /\ \E m \in MinVersions, pat \in {"default", "java"}, f \in BOOLEAN,
          p \in DrawnProcs, pk \in BOOLEAN :
            /\ (~f => p = TimeoutProc)
            /\ cv = [phase |-> "drawn", min_version |-> m, version_pattern |-> pat,
                     found |-> f, proc |-> p, packaging |-> pk, ret |-> NoCall]
    /\ pc = "idle"
    /\ host = ReadyHost
    /\ checks = <<>>
    /\ results = <<>>
    /\ success = <<>>
    /\ exitCode = <<>>
    /\ report = NoReport
    /\ raised = [type |-> "none", at |-> "none"]
    /\ ran = {}
    /\ setup = SetupIdle

\* one call of check_version("tool --version", min_version, version_pattern)
CVCall ==
    /\ cv.phase = "drawn"
    /\ cv' = [cv EXCEPT !.phase = "returned",
                        !.ret = CheckVersion("tool", cv.min_version, cv.version_pattern,
                                             cv.found, cv.proc, cv.packaging)]
    /\ UNCHANGED <<pc, host, checks, results, success, exitCode, report, raised, ran, setup>>

CVNext == CVCall

CVSpec == CVInit /\ [][CVNext]_vars

----------------------------------------------------------------------------
(* main *)

Init ==
    /\ \E ds \in [1..MaxDeviations -> Deviations \cup {<<"none">>}], pk \in BOOLEAN :
          host = [Deviated(ds, MaxDeviations) EXCEPT !.packaging = pk]
    /\ pc = "system"
    /\ checks = <<>>
    /\ results = <<>>
    /\ success = <<>>
    /\ exitCode = <<>>
    /\ report = NoReport
    /\ raised = [type |-> "none", at |-> "none"]
    /\ ran = {}
    /\ cv = CVIdle
    /\ setup = SetupIdle

Rest == <<host, success, exitCode, report, cv, setup>>

\* "System Requirements": self.check_system_requirements()
SystemRequirements ==
    /\ pc = "system"
    /\ IF CheckSystemRequirements(host).raises
       THEN /\ raised' = [type |-> "Exception", at |-> "check_system_requirements"]
            /\ pc' = "except"
            /\ UNCHANGED checks
       ELSE /\ checks' = Append(checks, <<"System Requirements", CheckSystemRequirements(host).results>>)
            /\ pc' = "core"
            /\ UNCHANGED raised
    /\ UNCHANGED <<results, ran>>
    /\ UNCHANGED Rest

\* "Core Tools": self.check_core_tools()
CoreTools ==
    /\ pc = "core"
    /\ checks' = Append(checks, <<"Core Tools", CheckCoreTools(host)>>)
    /\ ran' = ran \cup CoreToolsExecuted(host)
    /\ pc' = "languages"
    /\ UNCHANGED <<results, raised>>
    /\ UNCHANGED Rest

\* "Programming Languages": self.check_programming_languages()
ProgrammingLanguages ==
    /\ pc = "languages"
    /\ checks' = Append(checks, <<"Programming Languages", CheckProgrammingLanguages(host)>>)
    /\ ran' = ran \cup Executed(host, {"python3 --version", "python --version",
                                       "java -version", "node --version"})
    /\ pc' = "managers"
    /\ UNCHANGED <<results, raised>>
    /\ UNCHANGED Rest

\* "Package Managers": self.check_package_managers()
PackageManagers ==
    /\ pc = "managers"
    /\ checks' = Append(checks, <<"Package Managers", CheckPackageManagers(host)>>)
    /\ ran' = ran \cup Executed(host, {"poetry --version", "mvn --version", "npm --version"})
    /\ pc' = "docker"
    /\ UNCHANGED <<results, raised>>
    /\ UNCHANGED Rest

\* "Docker Configuration": self.check_docker_configuration()
DockerConfiguration ==
    /\ pc = "docker"
    /\ checks' = Append(checks, <<"Docker Configuration", CheckDockerConfiguration(host)>>)
    /\ ran' = ran \cup {"docker info"}
    /\ pc' = "ports"
    /\ UNCHANGED <<results, raised>>
    /\ UNCHANGED Rest

\* "Network Ports": self.check_network_ports()
NetworkPorts ==
    /\ pc = "ports"
    /\ checks' = Append(checks, <<"Network Ports", CheckNetworkPorts(host)>>)
    /\ pc' = "ide"
    /\ UNCHANGED <<results, raised, ran>>
    /\ UNCHANGED Rest

\* "IDE Tools": self.check_ide_tools()
IdeTools ==
    /\ pc = "ide"
    /\ checks' = Append(checks, <<"IDE Tools", CheckIdeTools(host)>>)
    /\ ran' = ran \cup Executed(host, {"code --version"})
    /\ pc' = "flatten"
    /\ UNCHANGED <<results, raised>>
    /\ UNCHANGED Rest

\* the end of run_all_checks: self.results = [] and the extend loop
FlattenResults ==
    /\ pc = "flatten"
    /\ results' = Flatten(checks)
    /\ pc' = "print"
    /\ UNCHANGED <<host, checks, success, exitCode, report, raised, ran, cv, setup>>

\* success = validator.print_results(checks); print raises on a console that cannot
\* encode the glyphs
PrintResultsStep ==
    /\ pc = "print"
    /\ IF host.console /= "utf-8"
       THEN /\ raised' = [type |-> "Exception", at |-> "print_results"]
            /\ pc' = "except"
            /\ UNCHANGED success
       ELSE /\ success' = <<PrintResults(results)>>
            /\ pc' = "generate"
            /\ UNCHANGED raised
    /\ UNCHANGED <<host, checks, results, exitCode, report, ran, cv, setup>>

\* generate_report up to open(output_file, 'w'): the date command may be missing,
\* the file may not be writable; the opened file is empty.  subprocess.run is called
\* without a timeout here, so the step waits for as long as date does not return
OpenReport ==
    /\ pc = "generate"
    /\ host.date /= "hangs"
    /\ IF host.date = "missing" \/ host.file /= "writable"
       THEN /\ raised' = [type |-> "Exception", at |-> "generate_report"]
            /\ pc' = "except"
            /\ UNCHANGED report
       ELSE /\ report' = [state |-> "partial", content |-> <<>>]
            /\ pc' = "write"
            /\ UNCHANGED raised
    /\ UNCHANGED <<host, checks, results, success, exitCode, ran, cv, setup>>

\* json.dump(report, f, indent=2) and the close of the file
WriteReport ==
    /\ pc = "write"
    /\ \E now \in Timestamps :
          report' = [state |-> "complete", content |-> <<Report(host, results, now)>>]
    /\ pc' = "exit"
    /\ UNCHANGED <<host, checks, results, success, exitCode, raised, ran, cv, setup>>

\* sys.exit(0 if success else 1)
Exit ==
    /\ pc = "exit"
    /\ exitCode' = <<ExitCodeOf(success[1])>>
    /\ pc' = "done"
    /\ UNCHANGED <<host, checks, results, success, report, raised, ran, cv, setup>>

InTry == {"system", "core", "languages", "managers", "docker", "ports", "ide",
          "flatten", "print", "generate", "write", "exit"}

\* the user interrupts the run somewhere in the try block:
\* except KeyboardInterrupt: sys.exit(1)
KeyboardInterrupt ==
    /\ pc \in InTry
    /\ raised' = [type |-> "KeyboardInterrupt", at |-> pc]
    /\ exitCode' = <<1>>
    /\ pc' = "done"
    /\ UNCHANGED <<host, checks, results, success, report, ran, cv, setup>>

\* except Exception: sys.exit(1)
ExceptException ==
    /\ pc = "except"
    /\ raised.type = "Exception"
    /\ exitCode' = <<1>>
    /\ pc' = "done"
    /\ UNCHANGED <<host, checks, results, success, report, raised, ran, cv, setup>>

Next ==
    \/ SystemRequirements
    \/ CoreTools
    \/ ProgrammingLanguages
    \/ PackageManagers
    \/ DockerConfiguration
    \/ NetworkPorts
    \/ IdeTools
    \/ FlattenResults
    \/ PrintResultsStep
    \/ OpenReport
    \/ WriteReport
    \/ Exit
    \/ KeyboardInterrupt
    \/ ExceptException

Spec == Init /\ [][Next]_vars

\* the process is at a statement it can execute: it has not exited and it is not
\* waiting in generate_report for a date command that does not return
Running == pc \in InTry \cup {"except"} /\ ~(pc = "generate" /\ host.date = "hangs")

\* the process executes its statement: it moves to another position, other than by
\* the user's interrupt
Proceeds ==
    /\ Running
    /\ pc' \in (InTry \cup {"except", "done"}) \ {pc}
    /\ raised' \in {raised} \cup [type : {"Exception"},
                                  at : {"check_system_requirements", "print_results",
                                        "generate_report"}]

\* the interpreter keeps executing a running process: a statement that can be executed
\* is executed; nothing makes the user interrupt
LiveSpec == Init /\ [][Next]_vars /\ WF_<<pc, raised>>(Proceeds)

----------------------------------------------------------------------------
(* print_results, generate_report and sys.exit on drawn result collections *)

\* largest number of results drawn for self.results
MaxResults == 5

\* the results drawn: a status that counts in the summary, required or not
DrawnResults ==
    {Result("check", st, Msg("", <<>>)) : st \in {"PASS", "FAIL", "WARNING"}}
        \cup {OptionalResult("check", st, Msg("", <<>>)) : st \in {"PASS", "FAIL", "WARNING"}}

\* main arrives at print_results with the drawn results, all in one category
SummaryInit ==
    /\ \E n \in 0..MaxResults : \E rs \in [1..n -> DrawnResults] :
          /\ results = rs
          /\ checks = <<(<<"Registry", rs>>)>>
    /\ host = ReadyHost
    /\ pc = "print"
    /\ success = <<>>
    /\ exitCode = <<>>
    /\ report = NoReport
    /\ raised = [type |-> "none", at |-> "none"]
    /\ ran = {}
    /\ cv = CVIdle
    /\ setup = SetupIdle

SummaryNext ==
    \/ PrintResultsStep
    \/ OpenReport
    \/ WriteReport
    \/ Exit

SummarySpec == SummaryInit /\ [][SummaryNext]_vars

----------------------------------------------------------------------------
(* The overall outcome and the exit code *)

\* some result of rs is required and has status FAIL
HasRequiredFail(rs) == \E i \in 1..Len(rs) : rs[i].required /\ rs[i].status = "FAIL"

\* C1: the value print_results returns is False (outcome FAIL) if and only if some
\* required result has status FAIL; required WARNING or INFO results leave it True
C1_OutcomeFailIffRequiredFail ==
    success /= <<>> => (success[1] = FALSE <=> HasRequiredFail(results))

\* C1: a run whose outcome is PASS although a required result is a WARNING
C1_Witness ==
    /\ success = <<TRUE>>
    /\ \E i \in 1..Len(results) : results[i].required /\ results[i].status = "WARNING"

\* rs with the status of its i-th result replaced
WithStatus(rs, i, st) == [rs EXCEPT ![i].status = st]

\* rs with the status of every non-required result replaced
WithOptionalStatus(rs, st) ==
    [i \in 1..Len(rs) |-> IF rs[i].required THEN rs[i] ELSE [rs[i] EXCEPT !.status = st]]

\* C2: the outcome and the exit code computed from the results of a run do not change
\* when the status of one, or of every, non-required result is replaced by any status
C2_OptionalStatusIrrelevant ==
    success /= <<>> =>
        /\ \A i \in 1..Len(results), st \in Statuses :
              ~results[i].required =>
                 /\ PrintResults(WithStatus(results, i, st)) = success[1]
                 /\ ExitCodeOf(PrintResults(WithStatus(results, i, st))) = ExitCodeOf(success[1])
        /\ \A st \in Statuses :
              /\ PrintResults(WithOptionalStatus(results, st)) = success[1]
              /\ (pc = "done" /\ raised.type = "none" =>
                    exitCode = <<ExitCodeOf(PrintResults(WithOptionalStatus(results, st)))>>)

\* C2: a run that passes although a non-required result (VS Code) is a FAIL
C2_Witness ==
    /\ pc = "done"
    /\ exitCode = <<0>>
    /\ \E i \in 1..Len(results) : ~results[i].required /\ results[i].status = "FAIL"

\* C3: the process has an exit code only when it is done; the code is 0 or 1; it is 0
\* exactly when no exception ended the try block and the outcome is PASS (no required
\* FAIL), and 1 when the outcome is FAIL or an exception was raised at any step
C3_ExitCode ==
    /\ pc /= "done" => exitCode = <<>>
    /\ pc = "done" =>
          /\ exitCode \in {<<0>>, <<1>>}
          /\ exitCode = <<0>> <=> (raised.type = "none" /\ ~HasRequiredFail(results))
          /\ raised.type /= "none" => exitCode = <<1>>
          /\ (raised.type = "none" /\ HasRequiredFail(results)) => exitCode = <<1>>

\* C3: a run that exits 1 because writing the report raised although the outcome was PASS
C3_Witness ==
    /\ pc = "done"
    /\ exitCode = <<1>>
    /\ raised = [type |-> "Exception", at |-> "generate_report"]
    /\ success = <<TRUE>>

----------------------------------------------------------------------------
(* One result per check *)

\* how many results of rs carry one of the names
Count(rs, names) == Cardinality({i \in 1..Len(rs) : rs[i].name \in names})

\* the names under which the checks that always report a result report it
AlwaysReported ==
    {"Operating System", "Architecture", "System Memory", "Disk Space", "git", "python3",
     "java", "node", "poetry", "mvn", "npm", "Docker Daemon", "code"}
        \cup {PortName(required_ports[k]) : k \in 1..Len(required_ports)}

\* the names of the two checks that report a result only on some hosts
SometimesReported == {"Docker Memory", "python (alias)"}

\* the Docker and the Docker Compose check report under docker or docker-compose
DockerNames == {"docker", "docker-compose"}

\* every check method of run_all_checks has returned
AllChecksReturned == Len(checks) = 7

C5_ErrorStaysInOneCheck ==
    (pc = "done" /\ raised.type /= "KeyboardInterrupt" /\ host.memory.kind = "Exception") =>
        (AllChecksReturned /\ report.state = "complete")

----------------------------------------------------------------------------
(* Memory and disk tiers *)

\* the status of a measured value (units of 2^28 bytes) against two thresholds in GB
Tier(units, recommended, minimum) ==
    IF units >= recommended * UnitsPerGB THEN "PASS"
    ELSE IF units >= minimum * UnitsPerGB THEN "WARNING"
    ELSE "FAIL"

\* C10: a measured memory is PASS from 16 GB, WARNING from 8 GB and FAIL below; a
\* measured free disk space is PASS from 100 GB, WARNING from 50 GB and FAIL below;
\* both results are required; 40 GB free gives FAIL with the message
\* "40.0 GB free (< 50 GB minimum)"
C10_ThreeTiers ==
    Len(checks) >= 1 =>
        LET system == checks[1][2]
        IN  /\ host.memory.kind = "ok" =>
                  /\ system[3].name = "System Memory"
                  /\ system[3].status = Tier(host.memory.units, 16, 8)
                  /\ system[3].required
            /\ host.disk.kind = "ok" =>
                  /\ system[4].name = "Disk Space"
                  /\ system[4].status = Tier(host.disk.units, 100, 50)
                  /\ system[4].required
            /\ (host.disk.kind = "ok" /\ host.disk.units = 40 * UnitsPerGB) =>
                  /\ system[4].status = "FAIL"
                  /\ system[4].message =
                        Msg("{:.1f} GB free (< 50 GB minimum)", <<(<<"4", "0", ".", "0">>)>>)

\* C10: the disk check has run on a host with 40 GB free and reported FAIL
C10_Witness ==
    /\ Len(checks) >= 1
    /\ host.disk = [kind |-> "ok", units |-> 40 * UnitsPerGB]
    /\ checks[1][2][4].status = "FAIL"

----------------------------------------------------------------------------
(* check_version: extraction and comparison *)

\* the i-th dotted component of version v as a number, 0 when v has fewer components
Component(v, i) == IF i <= Len(Release(v)) THEN Release(v)[i] ELSE 0

\* a is less than b in component-wise numeric order, missing components counting as 0
NumericLess(a, b) ==
    \E i \in 1..(Len(a) + Len(b)) :
        /\ Component(a, i) < Component(b, i)
        /\ \A k \in 1..(i - 1) : Component(a, k) = Component(b, k)

\* a is less than b in the character order of strings
RECURSIVE LexLess(_, _)
LexLess(a, b) ==
    IF b = <<>> THEN FALSE
    ELSE IF a = <<>> THEN TRUE
    ELSE IF Head(a) = Head(b) THEN LexLess(Tail(a), Tail(b))
    ELSE Ord(Head(a)) < Ord(Head(b))

\* check_version has returned after comparing an extracted version with the minimum
CVCompared == cv.phase = "returned" /\ cv.ret.comparison /= "none"

\* the version check_version extracted, as its message reports it
CVCurrent == cv.ret.result.message.args[1]

\* text s holds a version token of the pattern: digit, dot, digit for the default
\* pattern; the Java literal followed by a digit for the Java pattern
HasVersionToken(pattern, s) ==
    IF pattern = "java"
    THEN \E i \in 1..(Len(s) - 1) : s[i] = JavaPrefix /\ IsDigit(s[i + 1])
    ELSE \E i \in 1..(Len(s) - 2) : IsDigit(s[i]) /\ s[i + 1] = "." /\ IsDigit(s[i + 2])

\* stdout + stderr of the drawn version command
CVOutput == RunCommand(cv.proc).stdout \o RunCommand(cv.proc).stderr

\* C6, as claimed: whenever a version is extracted and compared, on either comparison
\* path, the status is PASS if it is at least the minimum and FAIL if it is less
C6_PassOrFailOnEveryPath ==
    CVCompared =>
        cv.ret.result.status = IF NumericLess(CVCurrent, cv.min_version) THEN "FAIL" ELSE "PASS"

\* C6, amended: a version is compared exactly when the tool is found, the command exits
\* 0 and a version is extracted; with the packaging library the status is PASS if the
\* version is at least the minimum and FAIL if it is less; without it the status is
\* PASS or WARNING, never FAIL
C6_PassOrFailWithPackaging ==
    /\ (cv.phase = "returned" /\ cv.found /\ RunCommand(cv.proc).code = 0
            /\ HasVersionToken(cv.version_pattern, CVOutput)) => CVCompared
    /\ CVCompared =>
          /\ cv.found /\ RunCommand(cv.proc).code = 0
          /\ cv.ret.comparison = IF cv.packaging THEN "packaging" ELSE "string"
          /\ cv.packaging =>
                cv.ret.result.status =
                    IF NumericLess(CVCurrent, cv.min_version) THEN "FAIL" ELSE "PASS"
          /\ ~cv.packaging => cv.ret.result.status \in {"PASS", "WARNING"}

\* C6: with the packaging library, 2.0 against the minimum 2 is a PASS
C6_Witness ==
    /\ CVCompared
    /\ cv.packaging
    /\ CVCurrent = <<"2", ".", "0">>
    /\ cv.min_version = <<"2">>
    /\ cv.ret.result.status = "PASS"

\* C7, as claimed: on either comparison path the comparison succeeds (PASS) exactly when
\* the extracted version is at least the minimum in component-wise numeric order
C7_ComparisonIsNumeric ==
    CVCompared =>
        (cv.ret.result.status = "PASS" <=> ~NumericLess(CVCurrent, cv.min_version))

\* C8, as claimed: a fallback comparison that succeeds is reported as WARNING
C8_FallbackSuccessIsWarning ==
    (CVCompared /\ cv.ret.comparison = "string" /\ ~LexLess(CVCurrent, cv.min_version)) =>
        cv.ret.result.status = "WARNING"

\* C8, amended: a fallback comparison that succeeds is reported as PASS with the message
\* of the semantic path; one that fails is reported as WARNING, never as FAIL
C8_FallbackSuccessIsPass ==
    (CVCompared /\ cv.ret.comparison = "string") =>
        IF LexLess(CVCurrent, cv.min_version)
        THEN /\ cv.ret.result.status = "WARNING"
             /\ cv.ret.result.message.fmt = "Version {}, expected >= {} (simple comparison)"
        ELSE /\ cv.ret.result.status = "PASS"
             /\ cv.ret.result.message.fmt = "Version {} (>= {})"

\* C8: the fallback reports PASS for 2.9 against the minimum 2.20
C8_Witness ==
    /\ CVCompared
    /\ cv.ret.comparison = "string"
    /\ CVCurrent = <<"2", ".", "9">>
    /\ cv.min_version = <<"2", ".", "2", "0">>
    /\ cv.ret.result.status = "PASS"

\* the tool was found, its command exited 0 and the output holds no version token
CVNoToken ==
    /\ cv.phase = "returned"
    /\ cv.found
    /\ RunCommand(cv.proc).code = 0
    /\ ~HasVersionToken(cv.version_pattern, CVOutput)

\* C9: when the tool is found and its command exits 0 but the output holds no version
\* token, with either pattern, the result is the WARNING "Could not parse version",
\* no comparison is made, and as a non-required result it leaves the outcome PASS
C9_NoTokenIsWarning ==
    CVNoToken =>
        /\ cv.ret.result.status = "WARNING"
        /\ cv.ret.result.message = Msg("Could not parse version from: {}", <<CVOutput>>)
        /\ cv.ret.comparison = "none"
        /\ PrintResults(<<NotRequired(cv.ret.result)>>) = PrintResults(<<>>)
        /\ PrintResults(<<NotRequired(cv.ret.result)>>)

\* C9: a command that printed digits but no version token got the WARNING
C9_Witness ==
    /\ CVNoToken
    /\ \E i \in 1..Len(CVOutput) : IsDigit(CVOutput[i])
    /\ cv.ret.result.status = "WARNING"

----------------------------------------------------------------------------
(* C11: the port checks *)

\* the list check_network_ports returned, <<>> before it has
PortResults == IF Len(checks) >= 6 THEN checks[6][2] ELSE <<>>

\* C11: once check_network_ports has returned, its list holds exactly one result for
\* each of the six ports, in the order of required_ports, each with required = false:
\* WARNING for a port with a listener, PASS for a port that refuses the connection;
\* no port result is FAIL or required, also when the probe raises; and the flattened
\* results hold each port's result exactly once
C11_PortResults ==
    /\ Len(required_ports) = 6
    /\ Len(checks) >= 6 =>
          /\ checks[6][1] = "Network Ports"
          /\ Len(PortResults) = Len(required_ports)
          /\ \A k \in 1..Len(required_ports) :
                LET r == PortResults[k]
                    a == host.ports[required_ports[k]]
                IN  /\ r.name = PortName(required_ports[k])
                    /\ r.required = FALSE
                    /\ r.status /= "FAIL"
                    /\ a = "listening" => r.status = "WARNING"
                    /\ a = "refused" => r.status = "PASS"
                    /\ Count(PortResults, {r.name}) = 1
    /\ results /= <<>> =>
          \A k \in 1..Len(required_ports) : Count(results, {PortName(required_ports[k])}) = 1

\* C11: a finished run on a host where one port has a listener, reported as an
\* optional WARNING, and the other five are free, reported as PASS
C11_Witness ==
    /\ pc = "done"
    /\ raised.type = "none"
    /\ \E k \in 1..Len(required_ports) :
          /\ host.ports[required_ports[k]] = "listening"
          /\ \E i \in 1..Len(results) :
                /\ results[i].name = PortName(required_ports[k])
                /\ results[i].status = "WARNING"
                /\ ~results[i].required
    /\ Cardinality({i \in 1..Len(results) :
                       results[i] \in {OptionalResult(PortName(required_ports[k]), "PASS",
                                                      Msg("Available", <<>>)) :
                                          k \in 1..Len(required_ports)}}) = 5

----------------------------------------------------------------------------
(* C12: the summary counts *)

\* the number of results of rs that are required and, if sts is given, have a status in sts
RequiredCount(rs, sts) == Cardinality({i \in 1..Len(rs) : rs[i].required /\ rs[i].status \in sts})

\* the number of non-required results of rs with status st
OptionalCount(rs, st) == Cardinality({i \in 1..Len(rs) : ~rs[i].required /\ rs[i].status = st})

\* 3 required results (2 PASS, 1 FAIL) and 2 non-required FAIL results, in any order
EndToEndExample(rs) ==
    /\ Len(rs) = 5
    /\ RequiredCount(rs, {"PASS"}) = 2
    /\ RequiredCount(rs, {"FAIL"}) = 1
    /\ OptionalCount(rs, "FAIL") = 2

\* C12: the four numbers of the summary are the numbers of required results (of each
\* status, and in all); they are the same for the collection without its non-required
\* results; and for 3 required results (2 PASS, 1 FAIL) plus 2 non-required FAIL the
\* summary is 2/3 passed, 1/3 failed, the outcome is FAIL and the exit code is 1
C12_SummaryCountsRequiredOnly ==
    /\ Summary(results) = [passed   |-> RequiredCount(results, {"PASS"}),
                           failed   |-> RequiredCount(results, {"FAIL"}),
                           warnings |-> RequiredCount(results, {"WARNING"}),
                           total    |-> RequiredCount(results, Statuses)]
    /\ Summary(results) = Summary(SelectSeq(results, IsRequired))
    /\ EndToEndExample(results) =>
          /\ Summary(results) = [passed |-> 2, failed |-> 1, warnings |-> 0, total |-> 3]
          /\ success \in {<<>>, <<FALSE>>}
          /\ pc \in {"generate", "write", "exit", "done"} => success = <<FALSE>>
          /\ exitCode \in {<<>>, <<1>>}
          /\ pc = "done" => exitCode = <<1>>

\* C12: the run on the end-to-end example has exited with code 1
C12_Witness ==
    /\ EndToEndExample(results)
    /\ pc = "done"
    /\ success = <<FALSE>>
    /\ exitCode = <<1>>
    /\ Summary(results).total = 3

----------------------------------------------------------------------------
(* C13: the order of the output *)

\* the categories in the order of the dict literal of run_all_checks
CategoryOrder ==
    <<"System Requirements", "Core Tools", "Programming Languages", "Package Managers",
      "Docker Configuration", "Network Ports", "IDE Tools">>

\* a place of the registry: the names its result may carry, and whether the check may
\* report nothing
Slot(names, conditional) == [names |-> names, conditional |-> conditional]

\* the checks in the order the check methods make them
RegistryOrder ==
    <<Slot({"Operating System"}, FALSE), Slot({"Architecture"}, FALSE),
      Slot({"System Memory"}, FALSE), Slot({"Disk Space"}, FALSE),
      Slot({"git"}, FALSE), Slot({"docker"}, FALSE), Slot(DockerNames, FALSE),
      Slot({"python3"}, FALSE), Slot({"python (alias)"}, TRUE),
      Slot({"java"}, FALSE), Slot({"node"}, FALSE),
      Slot({"poetry"}, FALSE), Slot({"mvn"}, FALSE), Slot({"npm"}, FALSE),
      Slot({"Docker Daemon"}, FALSE), Slot({"Docker Memory"}, TRUE)>>
        \o [k \in 1..Len(required_ports) |-> Slot({PortName(required_ports[k])}, FALSE)]
        \o <<Slot({"code"}, FALSE)>>

\* the names ns follow the places: each place in turn has its result, or has none and
\* is conditional
RECURSIVE InOrder(_, _)
InOrder(ns, slots) ==
    IF slots = <<>> THEN ns = <<>>
    ELSE IF ns /= <<>> /\ Head(ns) \in Head(slots).names
    THEN InOrder(Tail(ns), Tail(slots))
    ELSE Head(slots).conditional /\ InOrder(ns, Tail(slots))

Names(rs) == [i \in 1..Len(rs) |-> rs[i].name]

IsResultLine(l) == l.kind = "result"

IsCategoryLine(l) == l.kind = "category"

\* C13: the categories of checks are in the fixed order; when the flatten loop ends,
\* self.results is the concatenation of the seven lists in that order and its names
\* follow the registry; when print_results returns, the console shows the categories in
\* that order and below each its results, in all the results in the order of
\* self.results; the written report lists exactly these results in this order
C13_OutputInRegistryOrder ==
    /\ [i \in 1..Len(checks) |-> checks[i][1]] = SubSeq(CategoryOrder, 1, Len(checks))
    /\ pc = "print" =>
          /\ Len(checks) = 7
          /\ results = checks[1][2] \o checks[2][2] \o checks[3][2] \o checks[4][2]
                          \o checks[5][2] \o checks[6][2] \o checks[7][2]
          /\ InOrder(Names(results), RegistryOrder)
    /\ pc = "generate" =>
          LET printed == PrintedLines(checks)
          IN  /\ Names(SelectSeq(printed, IsCategoryLine)) = CategoryOrder
              /\ SelectSeq(printed, IsResultLine)
                    = [i \in 1..Len(results) |-> ResultLine(results[i])]
              /\ \A i \in 1..Len(checks) :
                    \E k \in 1..Len(printed) :
                        SubSeq(printed, k, k + Len(checks[i][2])) = CategoryLines(checks[i])
    /\ report.state = "complete" =>
          LET written == report.content[1].results
          IN  /\ Len(written) = Len(results)
              /\ \A i \in 1..Len(results) :
                    /\ written[i].name = results[i].name
                    /\ written[i].status = results[i].status
                    /\ written[i].message = results[i].message
                    /\ written[i].required = results[i].required

\* C13: a written report of a run in which the python alias and Docker Memory both
\* reported, so that every place of the registry has its result
C13_Witness ==
    /\ report.state = "complete"
    /\ Len(report.content[1].results) = Len(RegistryOrder)
    /\ report.content[1].results[9].name = "python (alias)"
    /\ report.content[1].results[16].name = "Docker Memory"
    /\ report.content[1].results[Len(RegistryOrder)].name = "code"

----------------------------------------------------------------------------
(* C14: determinism *)

\* the dict run_all_checks builds from the probe responses h, when no check raises
ChecksOn(h) ==
    <<(<<"System Requirements", CheckSystemRequirements(h).results>>),
      (<<"Core Tools", CheckCoreTools(h)>>),
      (<<"Programming Languages", CheckProgrammingLanguages(h)>>),
      (<<"Package Managers", CheckPackageManagers(h)>>),
      (<<"Docker Configuration", CheckDockerConfiguration(h)>>),
      (<<"Network Ports", CheckNetworkPorts(h)>>),
      (<<"IDE Tools", CheckIdeTools(h)>>)>>

\* the result list of a whole run on h
ResultsOn(h) ==
    LET cs == ChecksOn(h)
    IN  cs[1][2] \o cs[2][2] \o cs[3][2] \o cs[4][2] \o cs[5][2] \o cs[6][2] \o cs[7][2]

\* the entries of the report of a whole run on h
EntriesOn(h) ==
    LET rs == ResultsOn(h)
    IN  [i \in 1..Len(rs) |->
            [name |-> rs[i].name, status |-> rs[i].status, message |-> rs[i].message,
             details |-> rs[i].details, required |-> rs[i].required]]

\* the step at which a run on h raises, "none" if it does not
RaisesAt(h) ==
    IF h.memory.kind = "Exception" THEN "check_system_requirements"
    ELSE IF h.console /= "utf-8" THEN "print_results"
    ELSE IF h.date = "missing" \/ h.file /= "writable" THEN "generate_report"
    ELSE "none"

\* C14: what a run that nobody interrupted has produced when it ends is determined by
\* the probe responses alone, so two runs on the same responses agree: the lists of the
\* categories, the result list, the outcome, the exit code, whether and where the run
\* raised, and every field of the report except timestamp, which is the clock reading
C14_DeterminedByProbes ==
    (pc = "done" /\ raised.type /= "KeyboardInterrupt") =>
        LET rs == ResultsOn(host)
        IN  /\ raised.at = RaisesAt(host)
            /\ raised.at /= "check_system_requirements" =>
                  (checks = ChecksOn(host) /\ results = rs)
            /\ raised.at = "check_system_requirements" => (checks = <<>> /\ results = <<>>)
            /\ raised.at \in {"generate_report", "none"} => success = <<~HasRequiredFail(rs)>>
            /\ raised.at \in {"check_system_requirements", "print_results"} => success = <<>>
            /\ exitCode = <<IF raised.at /= "none" \/ HasRequiredFail(rs) THEN 1 ELSE 0>>
            /\ report.state = "complete" <=> raised.at = "none"
            /\ report.state = "complete" =>
                  /\ DOMAIN report.content[1] = {"timestamp", "system", "results"}
                  /\ report.content[1].results = EntriesOn(host)
                  /\ report.content[1].system =
                        [os |-> host.os, release |-> host.release,
                         architecture |-> host.machine, python_version |-> host.python]
                  /\ report.content[1].timestamp \in Timestamps \cup {""}

\* C14: a report written on a ready host at the later of the two clock readings: the
\* same probe responses give a report that differs in timestamp only
C14_Witness ==
    /\ report.state = "complete"
    /\ pc = "done"
    /\ host = ReadyHost
    /\ report.content[1].timestamp = "2026-01-01T00:00:01+00:00"
    /\ report.content[1].results = EntriesOn(ReadyHost)

----------------------------------------------------------------------------
(* C15: the schema of the report *)

\* the written report has a timestamp, a results list with one entry for each result
\* of the run, each entry with exactly the five fields and the name of its status
ReportShape(rc) ==
    /\ DOMAIN rc = {"timestamp", "system", "results"}
    /\ Len(rc.results) = Len(results)
    /\ \A i \in 1..Len(rc.results) :
          /\ DOMAIN rc.results[i] = {"name", "status", "message", "details", "required"}
          /\ rc.results[i].status \in Statuses
          /\ rc.results[i].status = results[i].status
          /\ rc.results[i].name = results[i].name
          /\ rc.results[i].required = results[i].required

\* C15, as claimed: the written report has that shape and its system object has
\* exactly the fields os, release, architecture and runtime_version
C15_SchemaWithRuntimeVersion ==
    pc = "exit" =>
        /\ ReportShape(report.content[1])
        /\ DOMAIN report.content[1].system = {"os", "release", "architecture", "runtime_version"}

\* C15, amended: the written report has that shape and its system object has exactly
\* the fields os, release, architecture and python_version; details is null in every
\* entry
C15_SchemaWithPythonVersion ==
    pc = "exit" =>
        /\ report.state = "complete"
        /\ ReportShape(report.content[1])
        /\ DOMAIN report.content[1].system = {"os", "release", "architecture", "python_version"}
        /\ report.content[1].system.python_version = host.python
        /\ \A i \in 1..Len(results) : report.content[1].results[i].details = "None"

\* C15: a written report that holds entries of the statuses PASS, WARNING and INFO
C15_Witness ==
    /\ pc = "exit"
    /\ report.state = "complete"
    /\ {report.content[1].results[i].status : i \in 1..Len(results)}
          = {"PASS", "WARNING", "INFO"}

----------------------------------------------------------------------------
(* C16: a probe that raises *)

\* the names of the checks whose probe raises on host h: the memory and the disk
\* query, a port probe, float() of the Docker memory value, subprocess.run of a
\* version command
RaisingChecks(h) ==
    (IF h.memory.kind = "Exception" THEN {"System Memory"} ELSE {})
        \cup (IF h.disk.kind = "Exception" THEN {"Disk Space"} ELSE {})
        \cup {PortName(required_ports[k]) :
                 k \in {j \in 1..Len(required_ports) : h.ports[required_ports[j]] = "error"}}
        \cup (LET rc == RunCommand(ShellProc(h, "docker info"))
              IN  IF rc.code = 0 /\ MemoryMatch(rc.stdout) /= <<>>
                     /\ FloatRaises(MemoryMatch(rc.stdout)[1])
                  THEN {"Docker Memory"} ELSE {})
        \cup {ToolOf(c) : c \in {d \in {"git --version", "code --version"} :
                                    h.which[ToolOf(d)] /\ h.proc[d].kind = "oserror"}}

\* the results that the check methods returned under the name n
Named(n) == SelectSeq(Flatten(checks), LAMBDA r : r.name = n)

\* the text of the exception is interpolated into the message of r
HasErrorText(r) ==
    \E i \in 1..Len(r.message.args) : r.message.args[i] \in {<<"e">>, <<"str(e)">>}

\* the checks have all returned, or an exception has left one of them
ChecksEnded ==
    \/ pc = "flatten"
    \/ pc = "except" /\ raised.at = "check_system_requirements"

----------------------------------------------------------------------------
(* C17, C18: a tool that is absent, a version command that times out *)

\* the tools of the registry that shutil.which does not find on host h
AbsentTools(h) == {t \in Tools : ~h.which[t]}

\* the version commands whose tool is found on host h and that exceed the timeout
TimedOut(h) == {c \in VersionCommands : h.which[ToolOf(c)] /\ h.proc[c].kind = "timeout"}

\* the tools whose check appends the result of check_version unchanged
PlainTools == {"git", "python3", "java", "node", "poetry", "mvn", "npm"}

\* C17, as claimed: when the checks have returned, the result of a check whose tool is
\* absent is FAIL if it is required and INFO if it is not
C17_AbsentIsFailOrInfo ==
    pc = "flatten" =>
        \A t \in AbsentTools(host) \cap (PlainTools \cup {"code"}) :
            /\ Len(Named(t)) = 1
            /\ Named(t)[1].status = IF Named(t)[1].required THEN "FAIL" ELSE "INFO"

\* C17, amended: check_version returns a required FAIL, not found in PATH, for every
\* command whose tool is absent; the checks append it unchanged, except that
\* check_ide_tools clears required and leaves the status FAIL, the python alias
\* appends nothing, and the Docker Compose check appends the result of the legacy
\* command instead
C17_AbsentIsFail ==
    /\ \A c \in VersionCommands :
          ToolOf(c) \in AbsentTools(host) =>
              CheckVersionOn(host, c).result
                  = Result(ToolOf(c), "FAIL", Msg("{} not found in PATH", <<(<<ToolOf(c)>>)>>))
    /\ pc = "flatten" =>
          \A t \in AbsentTools(host) :
              /\ t \in PlainTools =>
                    Named(t) = <<Result(t, "FAIL", Msg("{} not found in PATH", <<(<<t>>)>>))>>
              /\ t = "code" =>
                    Named(t) = <<OptionalResult(t, "FAIL",
                                                Msg("{} not found in PATH", <<(<<t>>)>>))>>
              /\ t = "python" => Named("python (alias)") = <<>>
              /\ t = "docker" =>
                    /\ checks[2][2][2]
                          = Result(t, "FAIL", Msg("{} not found in PATH", <<(<<t>>)>>))
                    /\ checks[2][2][3] = CheckVersionOn(host, "docker-compose --version").result

\* C17: the checks have returned on a host without VS Code, whose result is a
\* non-required FAIL
C17_Witness ==
    /\ pc = "flatten"
    /\ "code" \in AbsentTools(host)
    /\ Len(Named("code")) = 1
    /\ Named("code")[1].status = "FAIL"
    /\ ~Named("code")[1].required

\* the result check_version returns for a tool whose version command timed out
TimedOutResult(t) == Result(t, "FAIL", Msg("Failed to get version: {}", <<(<<"Command timed out">>)>>))

\* C18, as claimed: when the checks have returned, the result of a check whose version
\* command timed out is FAIL if it is required and WARNING if it is not
C18_TimeoutIsFailOrWarning ==
    pc = "flatten" =>
        \A c \in TimedOut(host) :
            ToolOf(c) \in PlainTools \cup {"code"} =>
                /\ Len(Named(ToolOf(c))) = 1
                /\ Named(ToolOf(c))[1].status
                      = IF Named(ToolOf(c))[1].required THEN "FAIL" ELSE "WARNING"

\* C18, amended: run_command returns (1, empty, Command timed out) and check_version a
\* required FAIL with that text for every version command that times out; the checks
\* append it unchanged, except that check_ide_tools clears required and leaves the
\* status FAIL, the python alias appends nothing, and the Docker Compose check appends
\* the result of the legacy command instead
C18_TimeoutIsFail ==
    /\ \A c \in TimedOut(host) :
          /\ RunCommand(host.proc[c])
                = [code |-> 1, stdout |-> <<>>, stderr |-> <<"Command timed out">>]
          /\ CheckVersionOn(host, c).result = TimedOutResult(ToolOf(c))
    /\ pc = "flatten" =>
          \A c \in TimedOut(host) :
              /\ ToolOf(c) \in PlainTools => Named(ToolOf(c)) = <<TimedOutResult(ToolOf(c))>>
              /\ c = "code --version" =>
                    Named("code") = <<NotRequired(TimedOutResult("code"))>>
              /\ c = "python --version" => Named("python (alias)") = <<>>
              /\ c = "docker --version" => checks[2][2][2] = TimedOutResult("docker")
              /\ c = "docker compose version" =>
                    checks[2][2][3] = CheckVersionOn(host, "docker-compose --version").result

\* C18: the checks have returned on a host where code --version timed out, and the
\* result is a non-required FAIL
C18_Witness ==
    /\ pc = "flatten"
    /\ "code --version" \in TimedOut(host)
    /\ Named("code") = <<OptionalResult("code", "FAIL",
                                        Msg("Failed to get version: {}", <<(<<"Command timed out">>)>>))>>

----------------------------------------------------------------------------
(* C19: run_command returns, the run terminates *)

\* the triple run_command returns for the command c of host h reports a failure
\* whenever the command timed out or subprocess.run raised
FailedTriple(h, c) ==
    /\ h.proc[c].kind = "timeout" =>
          RunCommand(h.proc[c]) = [code |-> 1, stdout |-> <<>>, stderr |-> <<"Command timed out">>]
    /\ h.proc[c].kind = "oserror" =>
          /\ RunCommand(h.proc[c]).code /= 0
          /\ RunCommand(h.proc[c]).stdout = <<>>
    /\ DOMAIN RunCommand(h.proc[c]) = {"code", "stdout", "stderr"}

\* every external command of the run returns or times out: the commands handed to
\* run_command always do, and date, which generate_report runs without a timeout,
\* does not hang
EveryProbeReturns == host.date /= "hangs"

\* the process has ended with an exit code
Terminated == pc = "done" /\ exitCode \in {<<0>>, <<1>>}

\* C19: run_command returns a triple for every command, a failed one with the text
\* Command timed out for a command that exceeds the timeout and a failed one when
\* subprocess.run raises; and if every external command returns or times out, the run
\* ends with an exit code
C19_RunCommandReturnsRunTerminates ==
    /\ [](\A c \in Commands : FailedTriple(host, c))
    /\ EveryProbeReturns => <>Terminated

\* C19: a run has ended with an exit code, nobody having interrupted it, on a host
\* where a command of the registry exceeded the timeout
C19_Witness ==
    /\ Terminated
    /\ raised.type /= "KeyboardInterrupt"
    /\ \E c \in Commands : host.which[IF c = "docker info" THEN "docker" ELSE ToolOf(c)]
                              /\ host.proc[c].kind = "timeout"

----------------------------------------------------------------------------
(* C20: a tool that is not on the path is reported without running its command *)

\* the result of check_version for a tool that shutil.which does not find
NotFoundResult(tool) == Result(tool, "FAIL", Msg("{} not found in PATH", <<(<<tool>>)>>))

\* the version commands whose tool is not on the path of host h
AbsentCommands(h) == {c \in VersionCommands : ~h.which[ToolOf(c)]}

\* C20: in every state of every run, no version command whose tool is absent from the
\* path has been handed to run_command, and the check_version call for such a command
\* returns "<tool> not found in PATH" without reaching run_command; once the checks have
\* returned, the result of an absent tool whose check is appended unchanged is that result
C20_AbsentToolNeverExecuted ==
    /\ ran \cap AbsentCommands(host) = {}
    /\ \A c \in AbsentCommands(host) :
            /\ ~CheckVersionOn(host, c).executed
            /\ CheckVersionOn(host, c).result = NotFoundResult(ToolOf(c))
    /\ pc = "flatten" =>
            \A t \in AbsentTools(host) \cap PlainTools : Named(t) = <<NotFoundResult(t)>>

\* the checks have returned on a host without git: the other version commands have run,
\* git's has not, and the Git check reports "git not found in PATH"
C20_Witness ==
    /\ pc = "flatten"
    /\ ~host.which["git"]
    /\ "git --version" \notin ran
    /\ "node --version" \in ran
    /\ Named("git") = <<NotFoundResult("git")>>

----------------------------------------------------------------------------
(* C21: what the caller of run_command can tell apart *)

\* the triple run_command returns to check_version in the call
CVTriple == RunCommand(cv.proc)

\* a command that ran and exited 1 with an error text
FailedProc == ExitProc(1, <<>>, <<"error">>)

\* C21, as claimed: check_version gives a version command that timed out another
\* status than it gives the same command when it ran and exited non-zero
C21_TimeoutStatusDiffersFromFailure ==
    (cv.phase = "returned" /\ cv.found /\ cv.proc.kind = "timeout") =>
        cv.ret.result.status /=
            CheckVersion("tool", cv.min_version, cv.version_pattern, TRUE, FailedProc,
                         cv.packaging).result.status

\* C21, amended: for a tool found on the path, run_command returns exit code 0 exactly
\* for a command that ran and exited 0; a timed-out command returns
\* (1, "", "Command timed out"), the triple of a command that exits 1 with that text on
\* stderr; and check_version gives every non-zero exit code the status FAIL with the
\* message "Failed to get version: <stderr>", so a timeout and a failed command differ
\* in the message text only
C21_OnlySuccessIsDistinguished ==
    (cv.phase = "returned" /\ cv.found) =>
        /\ CVTriple.code = 0 <=> (cv.proc.kind = "exit" /\ cv.proc.code = 0)
        /\ cv.proc.kind = "timeout" =>
              /\ CVTriple = [code |-> 1, stdout |-> <<>>, stderr |-> <<"Command timed out">>]
              /\ CVTriple = RunCommand(ExitProc(1, <<>>, <<"Command timed out">>))
        /\ CVTriple.code /= 0 =>
              cv.ret.result = Result("tool", "FAIL",
                                     Msg("Failed to get version: {}", <<CVTriple.stderr>>))

\* check_version has returned FAIL for a tool on the path whose command timed out
C21_Witness ==
    /\ cv.phase = "returned"
    /\ cv.found
    /\ cv.proc.kind = "timeout"
    /\ cv.ret.result.status = "FAIL"
    /\ cv.ret.result.message = Msg("Failed to get version: {}", <<(<<"Command timed out">>)>>)

----------------------------------------------------------------------------
(* C22: the user's interrupt *)

\* C22, as claimed: whenever the user has interrupted the run, the process has exited
\* with code 1 and the run has written no report file, complete or partial
C22_InterruptLeavesNoReport ==
    raised.type = "KeyboardInterrupt" =>
        /\ pc = "done"
        /\ exitCode = <<1>>
        /\ report = NoReport

----------------------------------------------------------------------------
(* C23: the fields of a result after its creation *)

\* the version commands whose result the check method appends as check_version made it
PlainCommands ==
    {"git --version", "python3 --version", "java -version", "node --version",
     "poetry --version", "mvn --version", "npm --version"}

\* the result check_version created for the VS Code check
CreatedForCode == CheckVersionOn(host, "code --version").result

\* C23, as claimed: when the check methods have returned, the result of the VS Code
\* check has the fields check_version created it with
C23_NoFieldChangesAfterCreation ==
    pc = "flatten" => Named("code") = <<CreatedForCode>>

\* a step leaves every result that a check method has returned, every flattened
\* result and every written report entry as it is
ResultsKept ==
    /\ Len(checks') >= Len(checks)
    /\ \A i \in 1..Len(checks) : checks'[i] = checks[i]
    /\ results /= <<>> => results' = results
    /\ report.state = "complete" => report' = report

\* C23, amended: one field of one result changes after its creation: check_ide_tools
\* sets required of the VS Code result from True to False before it returns it, and
\* leaves its name, status, message and details as check_version made them; the other
\* version results are returned as created, and no step changes a result once its check
\* method has returned it, in the category lists, in self.results or in the report
C23_OnlyIdeToolsClearsRequired ==
    /\ [](pc = "flatten" =>
            /\ CreatedForCode.required
            /\ Named("code") = <<[CreatedForCode EXCEPT !.required = FALSE]>>
            /\ \A c \in PlainCommands : Named(ToolOf(c)) = <<CheckVersionOn(host, c).result>>)
    /\ [][ResultsKept]_vars

\* the checks have returned; the VS Code result differs from the result check_version
\* created for it in the field required and in no other
C23_Witness ==
    /\ pc = "flatten"
    /\ Len(Named("code")) = 1
    /\ CreatedForCode.required
    /\ ~Named("code")[1].required
    /\ Named("code")[1].status = CreatedForCode.status
    /\ Named("code")[1].message = CreatedForCode.message

----------------------------------------------------------------------------
(* C24: run_all_checks called again on the same SystemValidator *)

\* the hosts the validator is run on: the probes may answer differently from one
\* call to the next
RepeatHosts ==
    {ReadyHost,
     Deviate(ReadyHost, <<"which", "git", FALSE>>),
     Deviate(ReadyHost, <<"which", "python", FALSE>>),
     Deviate(ReadyHost, <<"which", "code", FALSE>>),
     Deviate(ReadyHost, <<"proc", "docker info", ExitProc(1, <<>>, <<"error">>)>>),
     Deviate(ReadyHost, <<"proc", "node --version", TimeoutProc>>),
     Deviate(ReadyHost, <<"port", 8000, "listening">>),
     Deviate(ReadyHost, <<"port", 5432, "error">>),
     Deviate(ReadyHost, <<"memory", "", [kind |-> "Exception", units |-> 0]>>)}

\* self.results without the statement self.results = []
ResetResults_Keeps(old) == old

\* self.results = []
ResetResults(old) == <<>>

\* for category_results in checks.values(): self.results.extend(category_results)
RECURSIVE ExtendResults(_, _)
ExtendResults(rs, cs) ==
    IF cs = <<>> THEN rs ELSE ExtendResults(rs \o Head(cs)[2], Tail(cs))

\* validator = SystemValidator(): self.results = []
RepeatInit ==
    /\ host = ReadyHost
    /\ pc = "validator"
    /\ checks = <<>>
    /\ results = <<>>
    /\ success = <<>>
    /\ exitCode = <<>>
    /\ report = NoReport
    /\ raised = [type |-> "none", at |-> "none"]
    /\ ran = {}
    /\ cv = CVIdle
    /\ setup = SetupIdle

\* checks = validator.run_all_checks(), on the answers the probes give now: the dict
\* is built, then self.results is reset and extended; when check_system_requirements
\* raises, the call is left before self.results is touched
RunAllChecksCall ==
    /\ pc = "validator"
    /\ \E h \in RepeatHosts :
          /\ host' = h
          /\ IF CheckSystemRequirements(h).raises
             THEN /\ raised' = [type |-> "Exception", at |-> "check_system_requirements"]
                  /\ pc' = "validator"
                  /\ UNCHANGED <<checks, results>>
             ELSE /\ checks' = ChecksOn(h)
                  /\ results' = ExtendResults(ResetResults(results), ChecksOn(h))
                  /\ raised' = [type |-> "none", at |-> "none"]
                  /\ pc' = "returned"
    /\ UNCHANGED <<success, exitCode, report, ran, cv, setup>>

\* success = validator.print_results(checks)
PrintResultsCall ==
    /\ pc = "returned"
    /\ success' = <<PrintResults(results)>>
    /\ pc' = "printed"
    /\ UNCHANGED <<host, checks, results, exitCode, report, raised, ran, cv, setup>>

\* validator.generate_report()
GenerateReportCall ==
    /\ pc = "printed"
    /\ \E now \in Timestamps :
          report' = [state |-> "complete", content |-> <<Report(host, results, now)>>]
    /\ pc' = "validator"
    /\ UNCHANGED <<host, checks, results, success, exitCode, raised, ran, cv, setup>>

RepeatNext ==
    \/ RunAllChecksCall
    \/ PrintResultsCall
    \/ GenerateReportCall

\* one validator, run any number of times
RepeatSpec == RepeatInit /\ [][RepeatNext]_vars

\* C24: on one SystemValidator, after any number of calls, self.results never holds
\* more than the results of one call; when run_all_checks has returned, self.results is
\* the flattened dict that this call returned, computed from the answers the probes
\* gave in this call, and the outcome print_results returns, the summary counts and the
\* report entries written after it are those of this call alone
C24_ResultsOfLastCallOnly ==
    /\ results \in {<<>>, Flatten(checks)}
    /\ pc \in {"returned", "printed"} =>
          /\ checks = ChecksOn(host)
          /\ results = ResultsOn(host)
          /\ Summary(results) = Summary(ResultsOn(host))
    /\ pc = "printed" => success = <<PrintResults(ResultsOn(host))>>
    /\ (pc = "validator" /\ raised.type = "none" /\ report.state = "complete") =>
          report.content[1].results = EntriesOn(host)

\* a later call has returned on a validator whose earlier run wrote a report of other
\* results: the results are those of the later call
C24_Witness ==
    /\ pc = "returned"
    /\ report.state = "complete"
    /\ report.content[1].results /= EntriesOn(host)
    /\ Len(report.content[1].results) /= Len(results)
    /\ results = ResultsOn(host)

----------------------------------------------------------------------------
(* C25: the order of the steps of main *)

\* the checks and the rendering have completed without exception
ChecksAndRenderingCompleted == success /= <<>>

\* C25, as claimed: when a run that nobody interrupted has exited, either the checks
\* and the rendering completed, the report is written in full and the exit code is 0
\* for the outcome PASS and 1 for FAIL; or the checks or the rendering raised, the exit
\* code is 1 and generate_report was never called, so no report exists
C25_ReportWrittenBeforeExit ==
    (pc = "done" /\ raised.type /= "KeyboardInterrupt") =>
        IF ChecksAndRenderingCompleted
        THEN /\ report.state = "complete"
             /\ exitCode = <<ExitCodeOf(success[1])>>
        ELSE /\ raised.at \in {"check_system_requirements", "print_results"}
             /\ exitCode = <<1>>
             /\ report = NoReport

----------------------------------------------------------------------------
(* C26: INFO results are never required *)

\* the results of rs with status INFO
InfoResults(rs) == SelectSeq(rs, LAMBDA r : r.status = "INFO")

\* C26: in every state of every run, every INFO result that a check has returned has
\* required = False; and when print_results has printed the summary, passed + failed +
\* warnings = total, the number of required results, and failed = 0 with warnings = 0
\* means that every required result is PASS
C26_InfoNeverRequired ==
    LET flat == Flatten(checks)
    IN  /\ \A i \in 1..Len(flat) : flat[i].status = "INFO" => ~flat[i].required
        /\ (pc = "generate" /\ success /= <<>>) =>
              LET s == Summary(results)
              IN  /\ s.passed + s.failed + s.warnings = s.total
                  /\ s.total = Len(SelectSeq(results, IsRequired))
                  /\ (s.failed = 0 /\ s.warnings = 0) =>
                        \A i \in 1..Len(results) :
                            results[i].required => results[i].status = "PASS"

\* the summary has been printed for a run with an INFO result and with neither a failed
\* nor a warning count: all required results passed
C26_Witness ==
    /\ pc = "generate"
    /\ success = <<TRUE>>
    /\ InfoResults(results) /= <<>>
    /\ Summary(results).failed = 0
    /\ Summary(results).warnings = 0
    /\ Summary(results).passed = Summary(results).total
    /\ Summary(results).total < Len(results)

----------------------------------------------------------------------------
(* C27: the legacy docker-compose command *)

\* the status check_version returns for `docker compose version`
FirstComposeStatus == CheckVersionOn(host, "docker compose version").result.status

\* C27: once check_core_tools has returned, `docker-compose --version` has been handed
\* to check_version exactly if the `docker compose version` check returned FAIL, and
\* to run_command only then; the Docker Compose result appended is the legacy result
\* in that case and the first result otherwise; and Core Tools holds exactly three
\* results: Git, Docker and one Docker Compose result
C27_LegacyOnlyAfterFail ==
    /\ pc = "core" => "docker-compose --version" \notin ran
    /\ Len(checks) >= 2 =>
          /\ checks[2][1] = "Core Tools"
          /\ Len(checks[2][2]) = 3
          /\ checks[2][2][1] = CheckVersionOn(host, "git --version").result
          /\ checks[2][2][2] = CheckVersionOn(host, "docker --version").result
          /\ checks[2][2][3] =
                IF FirstComposeStatus = "FAIL"
                THEN CheckVersionOn(host, "docker-compose --version").result
                ELSE CheckVersionOn(host, "docker compose version").result
          /\ FirstComposeStatus /= "FAIL" => "docker-compose --version" \notin ran
          /\ "docker-compose --version" \in ran =>
                /\ FirstComposeStatus = "FAIL"
                /\ host.which["docker-compose"]

\* check_core_tools has returned on a host whose `docker compose version` failed: the
\* legacy command has run and the third result is the legacy one, named docker-compose
C27_Witness ==
    /\ pc = "languages"
    /\ FirstComposeStatus = "FAIL"
    /\ "docker-compose --version" \in ran
    /\ Len(checks[2][2]) = 3
    /\ checks[2][2][3].name = "docker-compose"
    /\ checks[2][2][3].status = "PASS"

----------------------------------------------------------------------------
(* C28: the results of check_docker_configuration *)

\* the list check_docker_configuration returned
DockerCategory == checks[5][2]

\* its results named Docker Memory
DockerMemory == SelectSeq(DockerCategory, LAMBDA r : r.name = "Docker Memory")

\* the status and the printed allocation of Docker Memory for the Total Memory values
\* of the hosts: 15.6GiB, 8GiB, 7.6 GiB, 7836MiB, 512KiB (a unit that is not
\* recognised counts as 0 GB) and 1.2.3GiB (not a number)
ExpectedDockerMemory(proc) ==
    CASE proc = DockerInfo(<<"1", "5", ".", "6", "G", "i", "B">>) ->
            <<Result("Docker Memory", "PASS",
                     Msg("{:.1f} GB allocated (>= 8 GB)", <<(<<"1", "5", ".", "6">>)>>))>>
      [] proc = DockerInfo(<<"8", "G", "i", "B">>) ->
            <<Result("Docker Memory", "PASS",
                     Msg("{:.1f} GB allocated (>= 8 GB)", <<(<<"8", ".", "0">>)>>))>>
      [] proc = DockerInfo(<<"7", ".", "6", " ", "G", "i", "B">>) ->
            <<Result("Docker Memory", "WARNING",
                     Msg("{:.1f} GB allocated (< 8 GB recommended)", <<(<<"7", ".", "6">>)>>))>>
      [] proc = DockerInfo(<<"7", "8", "3", "6", "M", "i", "B">>) ->
            <<Result("Docker Memory", "WARNING",
                     Msg("{:.1f} GB allocated (< 8 GB recommended)", <<(<<"7", ".", "7">>)>>))>>
      [] proc = DockerInfo(<<"5", "1", "2", "K", "i", "B">>) ->
            <<Result("Docker Memory", "WARNING",
                     Msg("{:.1f} GB allocated (< 8 GB recommended)", <<(<<"0", ".", "0">>)>>))>>
      [] proc = DockerInfo(<<"1", ".", "2", ".", "3", "G", "i", "B">>) ->
            <<OptionalResult("Docker Memory", "INFO",
                             Msg("Could not parse memory allocation", <<>>))>>
      [] OTHER -> <<>>

\* C28: once check_docker_configuration has returned, its first result is the required
\* Docker Daemon result; when docker info did not exit 0 it is FAIL and the only result;
\* a Docker Memory result exists only next to a Docker Daemon PASS, there is at most
\* one, it is PASS, WARNING or INFO and never FAIL, it is non-required exactly when it
\* is INFO, and on each host it is the result expected for the Total Memory value
C28_DockerMemoryNeverFail ==
    Len(checks) >= 5 =>
        LET info == RunCommand(ShellProc(host, "docker info"))
        IN  /\ checks[5][1] = "Docker Configuration"
            /\ DockerCategory[1].name = "Docker Daemon"
            /\ DockerCategory[1].required
            /\ DockerCategory[1].status = IF info.code = 0 THEN "PASS" ELSE "FAIL"
            /\ info.code /= 0 =>
                  DockerCategory =
                      <<Result("Docker Daemon", "FAIL", Msg("Not running: {}", <<info.stderr>>))>>
            /\ Len(DockerCategory) = 1 + Len(DockerMemory)
            /\ Len(DockerMemory) <= 1
            /\ DockerMemory /= <<>> =>
                  /\ DockerCategory[1].status = "PASS"
                  /\ DockerMemory[1].status \in {"PASS", "WARNING", "INFO"}
                  /\ DockerMemory[1].required <=> DockerMemory[1].status /= "INFO"
            /\ host.which["docker"] => DockerMemory = ExpectedDockerMemory(host.proc["docker info"])

\* check_docker_configuration has returned on a host whose docker info reports 512KiB:
\* the daemon is PASS and Docker Memory is a required WARNING of 0.0 GB
C28_Witness ==
    /\ Len(checks) >= 5
    /\ host.proc["docker info"] = DockerInfo(<<"5", "1", "2", "K", "i", "B">>)
    /\ DockerCategory[1].status = "PASS"
    /\ Len(DockerMemory) = 1
    /\ DockerMemory[1].status = "WARNING"
    /\ DockerMemory[1].required
    /\ DockerMemory[1].message.args = <<(<<"0", ".", "0">>)>>

----------------------------------------------------------------------------
(* C29: the python alias *)

\* the result check_version returns for `python --version`
AliasCheck == CheckVersionOn(host, "python --version").result

\* r is not the result added for the alias
NotAlias(r) == r.name \notin {"python", "python (alias)"}

\* C29: once check_programming_languages has returned, check_version has been called
\* for `python --version` (its command has run if python is on the path); the list
\* holds the python3, java and node results and, exactly when the alias check returned
\* PASS, one more result, a non-required PASS named "python (alias)" with the message
\* of the check; and the outcome and the summary counts of the run are those of the
\* results without the alias
C29_AliasOnlyWhenPass ==
    /\ Len(checks) >= 3 =>
          LET langs == checks[3][2]
          IN  /\ checks[3][1] = "Programming Languages"
              /\ host.which["python"] <=> "python --version" \in ran
              /\ SelectSeq(langs, NotAlias) =
                    <<CheckVersionOn(host, "python3 --version").result,
                      CheckVersionOn(host, "java -version").result,
                      CheckVersionOn(host, "node --version").result>>
              /\ IF AliasCheck.status = "PASS"
                 THEN /\ Len(langs) = 4
                      /\ langs[2] = OptionalResult("python (alias)", "PASS", AliasCheck.message)
                 ELSE Len(langs) = 3
    /\ pc = "print" =>
          /\ PrintResults(results) = PrintResults(SelectSeq(results, NotAlias))
          /\ Summary(results) = Summary(SelectSeq(results, NotAlias))

\* the summary has been printed with the outcome PASS on a host whose alias check
\* returned FAIL: no result was added for it
C29_Witness ==
    /\ pc = "generate"
    /\ AliasCheck.status = "FAIL"
    /\ success = <<TRUE>>
    /\ Len(checks[3][2]) = 3
    /\ Len(SelectSeq(results, NotAlias)) = Len(results)

----------------------------------------------------------------------------
(* C30: EnvironmentSetup.run_setup and the main of setup-dev-environment.py *)

\* setup = EnvironmentSetup(), in an environment drawn for the six steps, on a console
\* that can print the glyphs of the script or cannot
SetupInit ==
    /\ \E env \in [1..total_steps -> BOOLEAN] : setup = SetupIn(env)
    /\ host \in {ReadyHost, Deviate(ReadyHost, <<"console", "", "ascii">>)}
    /\ pc = "banner"
    /\ checks = <<>>
    /\ results = <<>>
    /\ success = <<>>
    /\ exitCode = <<>>
    /\ report = NoReport
    /\ raised = [type |-> "none", at |-> "none"]
    /\ ran = {}
    /\ cv = CVIdle

\* the banner of run_setup: print raises on a console that cannot encode the glyphs;
\* nothing catches it, the interpreter prints the traceback and exits with status 1
SetupBanner ==
    /\ pc = "banner"
    /\ IF host.console /= "utf-8"
       THEN /\ raised' = [type |-> "Exception", at |-> "run_setup"]
            /\ exitCode' = <<1>>
            /\ pc' = "done"
       ELSE /\ pc' = "step"
            /\ UNCHANGED <<raised, exitCode>>
    /\ UNCHANGED <<host, checks, results, success, report, ran, cv, setup>>

\* one iteration of the loop over setup_steps: the step function is called and returns
\* True or False, success_count is incremented on True
SetupStepRun ==
    /\ pc = "step"
    /\ setup.index <= total_steps
    /\ LET ok == setup.env[setup.index]
       IN  /\ setup' = [setup EXCEPT !.executed = Append(@, setup_steps[setup.index]),
                                     !.returned = Append(@, ok),
                                     !.success_count = CountStep(@, ok),
                                     !.index = AfterStep(@, ok)]
           /\ pc' = IF AfterStep(setup.index, ok) > total_steps THEN "summary" ELSE "step"
    /\ UNCHANGED <<host, checks, results, success, exitCode, report, raised, ran, cv>>

\* the summary of run_setup and its return value
SetupSummary ==
    /\ pc = "summary"
    /\ setup' = [setup EXCEPT !.ret = <<RunSetupReturns(setup.success_count)>>]
    /\ pc' = "setup_exit"
    /\ UNCHANGED <<host, checks, results, success, exitCode, report, raised, ran, cv>>

\* main: sys.exit(0 if success else 1)
SetupExit ==
    /\ pc = "setup_exit"
    /\ exitCode' = <<ExitCodeOf(setup.ret[1])>>
    /\ pc' = "done"
    /\ UNCHANGED <<host, checks, results, success, report, raised, ran, cv, setup>>

SetupNext ==
    \/ SetupBanner
    \/ SetupStepRun
    \/ SetupSummary
    \/ SetupExit

SetupSpec == SetupInit /\ [][SetupNext]_vars

\* the steps that have returned True
ReturnedTrue == {i \in 1..Len(setup.returned) : setup.returned[i]}

\* C30: in every state of a setup run, the steps executed so far are the first steps
\* of the list, in order, each once, and success_count is the number of them that
\* returned True; when the loop has ended all six steps have been executed, also after
\* a step that returned False; run_setup returns True exactly if all six returned True;
\* and the process exits 0 exactly if all six returned True, and 1 otherwise
C30_AllStepsRunAndCounted ==
    /\ Len(setup.executed) = Len(setup.returned)
    /\ Len(setup.executed) <= total_steps
    /\ setup.executed = SubSeq(setup_steps, 1, Len(setup.executed))
    /\ \A i \in 1..Len(setup.returned) : setup.returned[i] = setup.env[i]
    /\ setup.success_count = Cardinality(ReturnedTrue)
    /\ (pc \in {"summary", "setup_exit"} \/ (pc = "done" /\ raised.type = "none")) =>
          setup.executed = setup_steps
    /\ setup.ret /= <<>> => (setup.ret[1] <=> ReturnedTrue = 1..total_steps)
    /\ pc = "done" =>
          /\ exitCode \in {<<0>>, <<1>>}
          /\ exitCode = <<0>> <=> ReturnedTrue = 1..total_steps

\* a setup run has exited 1 after its first step returned False and the five other
\* steps were executed and returned True
C30_Witness ==
    /\ pc = "done"
    /\ setup.executed = setup_steps
    /\ ~setup.returned[1]
    /\ setup.success_count = total_steps - 1
    /\ setup.ret = <<FALSE>>
    /\ exitCode = <<1>>

====
